---- MODULE Spec2Model ----
(***************************************************************************)
(* The two-level scheduling engine of the workflow backend:                *)
(*   - WorkflowInputProcessor / WorkflowExecutor: ordering of the nodes of *)
(*     a workflow graph and their one-at-a-time execution;                 *)
(*   - ToolOrchestrator: planning of the selected tools into waves and     *)
(*     their execution with retry and timeout.                             *)
(***************************************************************************)
EXTENDS Integers, Sequences, FiniteSets, TLC

(***************************************************************************)
(* Bounds of the model.                                                    *)
(***************************************************************************)
MaxNodes == 3   \* nodes of a workflow whose execution order is computed
MaxEdges == 2   \* connections of such a workflow
RunNodes == 2   \* nodes of a workflow that is executed
RunEdges == 1   \* connections of such a workflow
MaxSelected == 4        \* length of the list of selected tools that is planned
MaxParallelChoice == 2  \* a configured wave cap below the default one
MaxExecSelected == 2    \* length of the list of selected tools that is executed
MaxRetries == 2         \* largest configured number of attempts of a tool
MaxLoopSelected == 2    \* length of the list of selected tools planned step by step
MaxDeclared == 2        \* number of dependencies the capabilities declare

(***************************************************************************)
(* Generic helpers on sequences.                                           *)
(***************************************************************************)
Range(s) == {s[i] : i \in DOMAIN s}

SeqsUpTo(S, n) == UNION {[1..k -> S] : k \in 0..n}

\* position of the first occurrence of x in s, 0 when absent (list.index)
IndexOf(s, x) ==
  IF x \in Range(s) THEN CHOOSE i \in DOMAIN s : s[i] = x /\ \A j \in 1..(i-1) : s[j] # x
  ELSE 0

\* position of the last occurrence of x in s, 0 when absent
LastIndexOf(s, x) ==
  IF x \in Range(s) THEN CHOOSE i \in DOMAIN s : s[i] = x /\ \A j \in (i+1)..Len(s) : s[j] # x
  ELSE 0

(***************************************************************************)
(* Workflow level: data.                                                   *)
(***************************************************************************)
\* keys of NODE_CLASSES
NODE_CLASSES ==
  {"brain", "input", "output", "knowledge", "tool",
   "BrainNode", "InputNode", "OutputNode", "KnowledgeBaseNode", "ToolNode"}

\* ProcessingMode values
ProcessingModes == {"development", "production", "testing"}

\* the exception classes _is_critical_error tests with isinstance
CriticalErrorTypes == {"ValueError", "TypeError", "KeyError"}

\* an id that names no declared node (a connection may still mention it)
GhostId == 0

NoNode == -1

\* node ids of a workflow's node list, in list order
NodeIds(wf) == [i \in DOMAIN wf.nodes |-> wf.nodes[i].node_id]

VARIABLES
  workflow,          \* self.workflow: [nodes, connections]
  processing_mode,   \* self.processing_mode
  pc,                \* position inside execute()
  processed_nodes,   \* processing_result.processed_nodes (insertion ordered)
  connection_graph,  \* processing_result.connection_graph (insertion ordered)
  execution_order,   \* processing_result.execution_order
  idx,               \* position of the for loop in execution_order
  node_results,      \* self.node_results (insertion ordered)
  started,           \* the calls node_instance.execute(...) made so far
  events,            \* the messages handed to manager.broadcast so far
  persist_log,       \* the calls of _persist_status made so far
  active_connections,  \* manager.active_connections: the number of connected sockets
  send_failures,     \* the positions of events of which a send_text raised
  db,                \* what _persist_status meets: the session, the id, the record
  execution_path     \* workflow_memory.execution_path

sinkvars == <<active_connections, send_failures>>

wfvars == <<workflow, processing_mode, pc, processed_nodes, connection_graph,
            execution_order, idx, node_results, started, events, persist_log, sinkvars, db, execution_path>>

VARIABLES
  available_tools,            \* self.available_tools: the names of the registered callables
  capability_registry,        \* the keys of self.tool_capabilities, fixed by the constructor
  capability_dependencies,    \* the <<tool, dependency>> pairs the capabilities declare
  enable_parallel_execution,  \* self.enable_parallel_execution
  max_parallel_tools,         \* self.max_parallel_tools
  retry_attempts,             \* self.retry_attempts
  selected_tools,             \* the selected_tools argument of create_execution_plan
  context,                    \* the context argument of create_execution_plan
  tools_node,                 \* the node whose BrainNode.execute called the orchestrator
  tool_execution_results,     \* BrainNode: what _execute_selected_tools has returned
  tpc,                        \* position of the orchestration request
  planning,                   \* the locals of create_execution_plan while it runs
  plan,                       \* the ToolExecutionPlan returned by create_execution_plan
  group_index,                \* position of the loop over plan.parallel_groups
  tool_index,                 \* position of the loop over plan.execution_order
  tasks,                      \* the calls of _execute_single_tool that are under way
  all_results,                \* the list of results built by the execution
  accumulated_context,        \* the tools whose "<tool>_result" key has been merged
  workflow_context,           \* the "<tool>_result" keys of the map of the caller
  terminated,                 \* the tools whose call has returned its result so far
  outcomes,                   \* how each attempt made so far has ended
  invocations                 \* the calls tool_instance.execute(...) made so far

\* the registry, the configuration and the arguments of the request
\* what an orchestration request is given and leaves unchanged
cfgvars == <<available_tools, capability_registry, capability_dependencies,
             enable_parallel_execution, max_parallel_tools, retry_attempts,
             selected_tools, context, tools_node>>

toolvars == <<cfgvars, planning, tool_execution_results, tpc, plan, group_index, tool_index,
              tasks, all_results, accumulated_context, workflow_context, terminated, outcomes,
              invocations>>

vars == <<wfvars, toolvars>>

\* ToolOrchestrator.__init__, lines 92-103.  As written the constructor reads
\* self.logger (line 197, called from line 94) before it assigns it (line 97), so it
\* raises AttributeError; the model describes an orchestrator that has the attributes
\* the constructor assigns, the configuration of lines 100-103 being open to the caller.
max_parallel_tools_default == 5
retry_attempts_default == 3

\* no orchestration request is under way (the executor of main.py is built without tools)
NoPlan == [tools |-> <<>>, execution_order |-> <<>>, dependencies |-> <<>>,
           parallel_groups |-> <<>>, estimated_duration |-> 0, priority |-> "MEDIUM"]

NoContext == [search_before_email |-> "absent", analyze_before_document |-> "absent",
              user_request |-> {}]

\* BrainNode.execute, line 188: tool_execution_results = [], nothing returned yet
NoToolResults == [returned |-> FALSE, results |-> <<>>]

\* create_execution_plan is not running
NoPlanning ==
  [stage |-> "none", dependencies |-> <<>>, st |-> [in_degree |-> <<>>, queue |-> <<>>],
   order |-> <<>>, remaining |-> {}, completed |-> {}, groups |-> <<>>]

ToolsNotBegun ==
  /\ tpc = "idle"
  /\ planning = NoPlanning
  /\ tools_node = NoNode
  /\ tool_execution_results = NoToolResults
  /\ plan = NoPlan
  /\ group_index = 0
  /\ tool_index = 0
  /\ tasks = <<>>
  /\ all_results = <<>>
  /\ accumulated_context = {}
  /\ workflow_context = {}
  /\ terminated = {}
  /\ outcomes = {}
  /\ invocations = {}

\* the capabilities of lines 110-195 declare no dependency
ToolsRest == ToolsNotBegun /\ capability_dependencies = {}

ToolsIdle ==
  /\ available_tools = {}
  /\ capability_registry = {}
  /\ enable_parallel_execution = TRUE
  /\ max_parallel_tools = max_parallel_tools_default
  /\ retry_attempts = retry_attempts_default
  /\ selected_tools = <<>>
  /\ context = NoContext
  /\ ToolsRest

(***************************************************************************)
(* Insertion-ordered dictionaries, as sequences of entries.                *)
(***************************************************************************)
\* index of the entry of connection_graph whose key is from, 0 when absent
GraphIndex(graph, from) ==
  IF \E i \in DOMAIN graph : graph[i].from = from
  THEN CHOOSE i \in DOMAIN graph : graph[i].from = from
  ELSE 0

\* connection_graph.get(node, [])
GraphGet(graph, node) ==
  IF GraphIndex(graph, node) = 0 THEN <<>> ELSE graph[GraphIndex(graph, node)].tos

\* keys of processed_nodes, in insertion order
ProcessedIds(pn) == [i \in DOMAIN pn |-> pn[i].node_id]

\* processed_nodes[node_id]
ProcessedNode(pn, node_id) == pn[IndexOf(ProcessedIds(pn), node_id)]

\* keys of node_results, in insertion order
ResultIds(nr) == [i \in DOMAIN nr |-> nr[i].node_id]

\* node_results[node_id]
ResultOf(nr, node_id) == nr[IndexOf(ResultIds(nr), node_id)]

\* node_results[node_id] = out
StoreResult(nr, out) ==
  IF out.node_id \in Range(ResultIds(nr))
  THEN [nr EXCEPT ![IndexOf(ResultIds(nr), out.node_id)] = out]
  ELSE Append(nr, out)

(***************************************************************************)
(* WorkflowInputProcessor.                                                 *)
(***************************************************************************)
\* truth value of an id in "if from_node and to_node"; ids here are non-empty
Truthy(id) == id # NoNode

RECURSIVE BuildConnectionGraphFrom(_, _)
BuildConnectionGraphFrom(connections, graph) ==
  IF connections = <<>> THEN graph
  ELSE LET conn == Head(connections)
           k    == GraphIndex(graph, conn.from)
           g1   == IF Truthy(conn.from) /\ Truthy(conn.to)
                   THEN IF k = 0
                        THEN Append(graph, [from |-> conn.from, tos |-> <<conn.to>>])
                        ELSE [graph EXCEPT ![k].tos = Append(@, conn.to)]
                   ELSE graph
       IN  BuildConnectionGraphFrom(Tail(connections), g1)

_build_connection_graph(connections) == BuildConnectionGraphFrom(connections, <<>>)

\* process_workflow, lines 116-130: one ProcessedNodeInput per node, keyed by id
RECURSIVE ProcessNodesFrom(_, _)
ProcessNodesFrom(nodes, pn) ==
  IF nodes = <<>> THEN pn
  ELSE LET n   == Head(nodes)
           rec == [node_id |-> n.node_id, node_type |-> n.node_type,
                   validation_errors |-> n.config_invalid]
           k   == IndexOf(ProcessedIds(pn), n.node_id)
       IN  ProcessNodesFrom(Tail(nodes),
                            IF k = 0 THEN Append(pn, rec) ELSE [pn EXCEPT ![k] = rec])

ProcessNodes(nodes) == ProcessNodesFrom(nodes, <<>>)

\* lines 266-271: the in-degree of every processed node
RECURSIVE CountIn(_, _)
CountIn(tos, node) ==
  IF tos = <<>> THEN 0
  ELSE (IF Head(tos) = node THEN 1 ELSE 0) + CountIn(Tail(tos), node)

RECURSIVE InDegreeOver(_, _)
InDegreeOver(graph, node) ==
  IF graph = <<>> THEN 0
  ELSE CountIn(Head(graph).tos, node) + InDegreeOver(Tail(graph), node)

InDegree(ids, graph) == [n \in Range(ids) |-> InDegreeOver(graph, n)]

\* the initial queue without the test "degree == 0"
InitialQueueEveryNode(ids, in_degree) == ids

\* line 274: the initial queue, in the order of the keys of in_degree
InitialQueue(ids, in_degree) == SelectSeq(ids, LAMBDA n : in_degree[n] = 0)

\* the inner loop without the test "in_degree[connected] == 0" of line 285
RECURSIVE QueuesOnEveryDecrement(_, _)
QueuesOnEveryDecrement(tos, st) ==
  IF tos = <<>> THEN st
  ELSE LET connected == Head(tos)
       IN  IF connected \in DOMAIN st.in_degree
           THEN QueuesOnEveryDecrement(Tail(tos),
                  [in_degree |-> [st.in_degree EXCEPT ![connected] = @ - 1],
                   queue     |-> Append(st.queue, connected)])
           ELSE QueuesOnEveryDecrement(Tail(tos), st)

\* lines 282-286: the inner loop over the successors of the popped node
RECURSIVE ReduceInDegree(_, _)
ReduceInDegree(tos, st) ==
  IF tos = <<>> THEN st
  ELSE LET connected == Head(tos)
       IN  IF connected \in DOMAIN st.in_degree
           THEN LET d == st.in_degree[connected] - 1
                IN  ReduceInDegree(Tail(tos),
                      [in_degree |-> [st.in_degree EXCEPT ![connected] = d],
                       queue     |-> IF d = 0 THEN Append(st.queue, connected)
                                     ELSE st.queue])
           ELSE ReduceInDegree(Tail(tos), st)

\* the while loop popping the newest entry of the queue instead of the oldest
RECURSIVE TopologicalSortLifo(_, _, _)
TopologicalSortLifo(st, order, graph) ==
  IF st.queue = <<>> THEN order
  ELSE LET current == st.queue[Len(st.queue)]
       IN  TopologicalSortLifo(
             ReduceInDegree(GraphGet(graph, current),
                            [in_degree |-> st.in_degree,
                             queue |-> SubSeq(st.queue, 1, Len(st.queue) - 1)]),
             Append(order, current), graph)

\* lines 277-286: the while loop
RECURSIVE TopologicalSort(_, _, _)
TopologicalSort(st, order, graph) ==
  IF st.queue = <<>> THEN order
  ELSE LET current == Head(st.queue)
       IN  TopologicalSort(
             ReduceInDegree(GraphGet(graph, current),
                            [in_degree |-> st.in_degree, queue |-> Tail(st.queue)]),
             Append(order, current), graph)

_calculate_execution_order(pn, graph) ==
  LET ids       == ProcessedIds(pn)
      in_degree == InDegree(ids, graph)
  IN  TopologicalSort([in_degree |-> in_degree, queue |-> InitialQueue(ids, in_degree)],
                      <<>>, graph)

(***************************************************************************)
(* WorkflowExecutor.                                                       *)
(***************************************************************************)
RECURSIVE InputsFrom(_, _, _)
InputsFrom(graph, node_id, nr) ==
  IF graph = <<>> THEN <<>>
  ELSE LET entry == Head(graph)
           rest  == InputsFrom(Tail(graph), node_id, nr)
       IN  IF node_id \in Range(entry.tos) /\ entry.from \in Range(ResultIds(nr))
           THEN <<ResultOf(nr, entry.from)>> \o rest
           ELSE rest

\* _get_input_for_processed_node appending once for every occurrence of node_id in
\* to_node_ids
RECURSIVE InputsPerEdge(_, _, _)
InputsPerEdge(node_id, graph, nr) ==
  IF graph = <<>> THEN <<>>
  ELSE LET entry == Head(graph)
           hits  == SelectSeq(entry.tos, LAMBDA t : t = node_id)
           rest  == InputsPerEdge(node_id, Tail(graph), nr)
       IN  IF entry.from \in Range(ResultIds(nr))
           THEN [k \in 1..Len(hits) |-> ResultOf(nr, entry.from)] \o rest
           ELSE rest

\* _get_input_for_processed_node without the test "node_id in to_node_ids"
InputsFromEveryResult(node_id, graph, nr) == nr

_get_input_for_processed_node(node_id, graph, nr) == InputsFrom(graph, node_id, nr)

\* _is_critical_error answering True for every error
EveryErrorCritical(error, node_type) == TRUE

\* _is_critical_error without the isinstance test
CriticalByNodeTypeOnly(error, node_type) == node_type \in {"input", "brain"}

_is_critical_error(error, node_type) ==
  \/ node_type \in {"input", "brain"}
  \/ error \in CriticalErrorTypes

\* a message that does not name its node
EventWithoutNode(type, node_id, success, error) ==
  [type |-> type, node_id |-> NoNode, success |-> success, error |-> error]

\* the messages of the lifecycle event sink
Event(type, node_id, success, error) ==
  [type |-> type, node_id |-> node_id, success |-> success, error |-> error]

\* ConnectionManager.broadcast, main.py lines 160-165: whether a send_text of the
\* broadcast raises; without a connection nothing is sent
SendOutcomes == IF active_connections = 0 THEN {FALSE} ELSE BOOLEAN

\* a broadcast that lets the error of a send through
SendErrorEscapes(failed) == failed

\* main.py lines 162-165: the bare except around send_text swallows the error, so
\* broadcast never raises
BroadcastRaises(failed) == FALSE

\* the positions of the failed sends after the message at position i
FailuresWith(fails, i, failed) == IF failed THEN fails \cup {i} ELSE fails

\* the class of the error a failing send would raise
SendError == "SendError"

\* what a call of _persist_status can meet, lines 240-260: a session, an id and a record
\* to update; no session or no execution id; an id that is no UUID; no record of the run;
\* an error raised by the lookup; an error raised by the commit
PersistenceKinds ==
  {"ok", "no_session", "malformed_id", "missing_record", "lookup_error", "commit_error"}

\* the class of the error a failing lookup or commit raises
PersistError == "PersistError"

\* a _persist_status that lets the error of the session through
PersistErrorEscapes(kind) == kind \in {"lookup_error", "commit_error"}

\* lines 242-263: the lookup and the commit are inside try/except Exception: pass, and
\* the other cases return early, so _persist_status never raises
PersistRaises(kind) == FALSE

\* a run that never calls _persist_status
PersistsNothing(log, status, results, error) == log

\* _persist_status, lines 239-263: the call is made; the record takes the status only
\* when there is a session, a well-formed id, a record, and lookup and commit succeed
_persist_status(log, status, results, error) ==
  Append(log, [status |-> status, results |-> results, error |-> error,
               stored |-> db = "ok"])

\* lines 132-140, the handler around the whole of execute(): one more execution_error,
\* without node id, then the status failed is persisted; an error of that broadcast or
\* of that _persist_status leaves execute()
HandleRunError(evs, fails, log, error) ==
  \E failed \in SendOutcomes :
    /\ events' = Append(evs, Event("execution_error", NoNode, FALSE, error))
    /\ send_failures' = FailuresWith(fails, Len(evs) + 1, failed)
    /\ idx' = idx
    /\ IF BroadcastRaises(failed)
       THEN /\ pc' = "raised"
            /\ persist_log' = log
       ELSE /\ pc' = IF PersistRaises(db) THEN "raised" ELSE "done"
            /\ persist_log' = _persist_status(log, "failed", <<>>, error)

\* what the exception classes raised by a node executor are drawn from
ErrorKinds == {"ValueError", "RuntimeError"}

\* the node the for loop is at
AtNode == pc \in {"loop", "running"} /\ idx \in DOMAIN execution_order

CurrentId == execution_order[idx]

CurrentNode == ProcessedNode(processed_nodes, CurrentId)

\* the loop body without the "continue" of lines 95-99
SkipsOnlyUndeclared(node_id) == node_id \notin Range(ProcessedIds(processed_nodes))

\* lines 90-99: the two "continue" of the loop body
Skipped(node_id) ==
  \/ node_id \notin Range(ProcessedIds(processed_nodes))
  \/ /\ ProcessedNode(processed_nodes, node_id).validation_errors
     /\ processing_mode = "production"

\* execute(), lines 66-86: process_workflow and the workflow_started broadcast
StartWorkflow ==
  /\ pc = "init"
  /\ LET pn    == ProcessNodes(workflow.nodes)
         graph == _build_connection_graph(workflow.connections)
     IN  /\ processed_nodes' = pn
         /\ connection_graph' = graph
         /\ execution_order' = _calculate_execution_order(processed_nodes', connection_graph')
  /\ \E failed \in SendOutcomes :
       LET sent == Append(events, Event("workflow_started", NoNode, TRUE, "none"))
       IN  IF BroadcastRaises(failed)
           THEN HandleRunError(sent, FailuresWith(send_failures, Len(sent), failed),
                               persist_log, SendError)
           ELSE /\ events' = sent
                /\ send_failures' = FailuresWith(send_failures, Len(sent), failed)
                /\ idx' = 1
                /\ pc' = "loop"
                /\ UNCHANGED persist_log
  /\ UNCHANGED toolvars
  /\ UNCHANGED <<workflow, processing_mode, node_results, started, active_connections, db, execution_path>>

\* lines 90-99: the node is passed over
SkipNode ==
  /\ pc = "loop"
  /\ AtNode
  /\ Skipped(CurrentId)
  /\ idx' = idx + 1
  /\ UNCHANGED toolvars
  /\ UNCHANGED <<workflow, processing_mode, pc, processed_nodes, connection_graph,
                 execution_order, node_results, started, events, persist_log, sinkvars, db, execution_path>>

\* lines 104-117: the handler of an exception raised while executing a node, after the
\* messages evs
HandleNodeError(evs, fails, error) ==
  \E failed \in SendOutcomes :
    LET sent == Append(evs, Event("execution_error", CurrentId, FALSE, error))
    IN  IF BroadcastRaises(failed)
        THEN HandleRunError(sent, FailuresWith(fails, Len(sent), failed), persist_log,
                            SendError)
        ELSE IF _is_critical_error(error, CurrentNode.node_type)
        THEN LET log == _persist_status(persist_log, "failed", <<>>, error)
             IN  IF PersistRaises(db)
                 THEN HandleRunError(sent, FailuresWith(fails, Len(sent), failed), log,
                                     PersistError)
                 ELSE /\ events' = sent
                      /\ send_failures' = FailuresWith(fails, Len(sent), failed)
                      /\ persist_log' = log
                      /\ pc' = "done"
                      /\ idx' = idx
        ELSE /\ events' = sent
             /\ send_failures' = FailuresWith(fails, Len(sent), failed)
             /\ persist_log' = persist_log
             /\ pc' = "loop"
             /\ idx' = idx + 1

\* _execute_processed_node, lines 144-183: up to the call of node_instance.execute
BeginNode ==
  /\ pc = "loop"
  /\ AtNode
  /\ ~Skipped(CurrentId)
  /\ CurrentNode.node_type \in NODE_CLASSES
  /\ started' = Append(started,
                  [node_id |-> CurrentId,
                   inputs  |-> _get_input_for_processed_node(CurrentId, connection_graph,
                                                             node_results)])
  /\ pc' = "running"
  /\ UNCHANGED toolvars
  /\ UNCHANGED <<workflow, processing_mode, processed_nodes, connection_graph,
                 execution_order, idx, node_results, events, persist_log, sinkvars, db, execution_path>>

\* _execute_processed_node, lines 151-152: ValueError("Unknown node type")
UnknownNodeType ==
  /\ pc = "loop"
  /\ AtNode
  /\ ~Skipped(CurrentId)
  /\ CurrentNode.node_type \notin NODE_CLASSES
  /\ HandleNodeError(events, send_failures, "ValueError")
  /\ UNCHANGED toolvars
  /\ UNCHANGED <<workflow, processing_mode, processed_nodes, connection_graph,
                 execution_order, node_results, started, active_connections, db, execution_path>>

\* GeneralNodeLogic._generate_node_id: an id node_<8 hex digits> made up for one call of
\* execute_node; no node of the workflow carries it
GeneratedId == -2

\* whether the executor of a node of this type may have called execute_node to its end:
\* of the registered classes only ToolNode.execute does (ToolNode.py line 226, when the
\* configured mode is not prototype), and execute_node writes the history only when
\* the model call succeeded (GeneralNodeLogic.py lines 189-206)
HistoryWrites(node_type) ==
  IF node_type \in {"tool", "ToolNode"} THEN BOOLEAN ELSE {FALSE}

\* WorkflowMemory.add_to_history, GeneralNodeLogic.py lines 40-49
add_to_history(path, node_id) == Append(path, node_id)

\* _execute_processed_node, lines 178-200: the executor returned a result
NodeReturns ==
  /\ pc = "running"
  /\ \E written \in HistoryWrites(CurrentNode.node_type) :
       execution_path' = IF written THEN add_to_history(execution_path, GeneratedId)
                         ELSE execution_path
  /\ \E success \in BOOLEAN, failed \in SendOutcomes :
       LET sent == Append(events, Event("node_executed", CurrentId, success, "none"))
       IN  /\ node_results' = StoreResult(node_results,
                                 [node_id |-> CurrentId, node_type |-> CurrentNode.node_type,
                                  success |-> success])
           /\ IF BroadcastRaises(failed)
              THEN HandleNodeError(sent, FailuresWith(send_failures, Len(sent), failed),
                                   SendError)
              ELSE /\ events' = sent
                   /\ send_failures' = FailuresWith(send_failures, Len(sent), failed)
                   /\ idx' = idx + 1
                   /\ pc' = "loop"
                   /\ UNCHANGED persist_log
  /\ UNCHANGED toolvars
  /\ UNCHANGED <<workflow, processing_mode, processed_nodes, connection_graph,
                 execution_order, started, active_connections, db>>

\* the executor raised
NodeRaises ==
  /\ pc = "running"
  /\ \E error \in ErrorKinds : HandleNodeError(events, send_failures, error)
  /\ UNCHANGED toolvars
  /\ UNCHANGED <<workflow, processing_mode, processed_nodes, connection_graph,
                 execution_order, node_results, started, active_connections, db, execution_path>>

\* execute(), lines 119-130: the loop is over
FinishWorkflow ==
  /\ pc = "loop"
  /\ idx > Len(execution_order)
  /\ \E failed \in SendOutcomes :
       LET sent == Append(events, Event("workflow_finished", NoNode, TRUE, "none"))
       IN  IF BroadcastRaises(failed)
           THEN HandleRunError(sent, FailuresWith(send_failures, Len(sent), failed),
                               persist_log, SendError)
           ELSE LET log == _persist_status(persist_log, "completed",
                                           ResultIds(node_results), "none")
                IN  IF PersistRaises(db)
                    THEN HandleRunError(sent,
                                        FailuresWith(send_failures, Len(sent), failed),
                                        log, PersistError)
                    ELSE /\ events' = sent
                         /\ send_failures' = FailuresWith(send_failures, Len(sent), failed)
                         /\ persist_log' = log
                         /\ pc' = "done"
                         /\ idx' = idx
  /\ UNCHANGED toolvars
  /\ UNCHANGED <<workflow, processing_mode, processed_nodes, connection_graph,
                 execution_order, node_results, started, active_connections, db, execution_path>>

(***************************************************************************)
(* The workflows the model runs.                                           *)
(***************************************************************************)
Node(id, type, invalid) == [node_id |-> id, node_type |-> type, config_invalid |-> invalid]

Conn(from, to) == [from |-> from, to |-> to]

\* Input -> Brain -> Output
ChainWorkflow ==
  [nodes |-> <<Node(1, "input", FALSE), Node(2, "brain", FALSE), Node(3, "output", FALSE)>>,
   connections |-> <<Conn(1, 2), Conn(2, 3)>>]

\* A -> B, A -> C, B -> D, C -> D
DiamondWorkflow ==
  [nodes |-> <<Node(1, "input", FALSE), Node(2, "brain", FALSE), Node(3, "tool", FALSE),
               Node(4, "output", FALSE)>>,
   connections |-> <<Conn(1, 2), Conn(1, 3), Conn(2, 4), Conn(3, 4)>>]

\* the workflow of n nodes with ids 1..n in list order
WorkflowOf(n, types, invalid, connections) ==
  [nodes |-> [i \in 1..n |-> Node(i, types[i], invalid[i])], connections |-> connections]

\* the connections over n declared nodes; either end may be GhostId
ConnsOver(n) == [from : (1..n) \cup {GhostId}, to : (1..n) \cup {GhostId}]

\* node types of the executed workflows: critical by type, not critical, unregistered
RunNodeTypes == {"brain", "output", "externalApp"}

RunModes == {"production", "development"}

\* workflows of up to maxN nodes and maxConn connections
IsWorkflowOf(wf, maxN, types, flags, maxConn) ==
  \E n \in 0..maxN, k \in 0..maxConn :
    \E t \in [1..n -> types], v \in [1..n -> flags], c \in [1..k -> ConnsOver(n)] :
      wf = WorkflowOf(n, t, v, c)

InitLoop ==
  /\ pc = "init"
  /\ processed_nodes = <<>>
  /\ connection_graph = <<>>
  /\ execution_order = <<>>
  /\ idx = 0
  /\ node_results = <<>>
  /\ started = <<>>
  /\ events = <<>>
  /\ persist_log = <<>>
  /\ send_failures = {}
  /\ execution_path = <<>>

\* a run without a connected socket, whose status is stored
InitRest == InitLoop /\ active_connections = 0 /\ db = "ok"

\* executed: small workflows with every node attribute, wider graphs of valid brain
\* nodes, and the two workflows of the scenarios
Init ==
  /\ \/ /\ IsWorkflowOf(workflow, RunNodes, RunNodeTypes, BOOLEAN, RunEdges)
        /\ processing_mode \in RunModes
     \/ /\ IsWorkflowOf(workflow, MaxNodes, {"brain"}, {FALSE}, MaxEdges)
        /\ processing_mode = "development"
     \/ /\ workflow \in {ChainWorkflow, DiamondWorkflow}
        /\ processing_mode \in RunModes
  /\ InitRest
  /\ ToolsIdle

Next ==
  \/ StartWorkflow
  \/ SkipNode
  \/ BeginNode
  \/ UnknownNodeType
  \/ NodeReturns
  \/ NodeRaises
  \/ FinishWorkflow

Spec == Init /\ [][Next]_vars

\* the computation of the execution order alone, over a wider family of graphs
InitOrder ==
  /\ \/ IsWorkflowOf(workflow, MaxNodes, {"brain"}, {FALSE}, MaxEdges)
     \/ workflow \in {ChainWorkflow, DiamondWorkflow}
  /\ processing_mode = "production"
  /\ InitRest
  /\ ToolsIdle

SpecOrder == InitOrder /\ [][StartWorkflow]_vars

\* a chain with an invalid node, a tool node and a node of an unregistered type
SinkChainWorkflow ==
  [nodes |-> <<Node(1, "brain", TRUE), Node(2, "tool", FALSE),
               Node(3, "externalApp", FALSE)>>,
   connections |-> <<Conn(1, 2), Conn(2, 3)>>]

\* runs watched by one connected socket whose send_text may raise
InitSink ==
  /\ workflow \in {ChainWorkflow, SinkChainWorkflow}
  /\ processing_mode \in RunModes
  /\ InitLoop
  /\ active_connections = 1
  /\ db = "ok"
  /\ ToolsIdle

SpecSink == InitSink /\ [][Next]_vars

\* runs that meet each of the cases of _persist_status
InitPersist ==
  /\ workflow \in {ChainWorkflow, SinkChainWorkflow}
  /\ processing_mode \in RunModes
  /\ InitLoop
  /\ active_connections = 0
  /\ db \in PersistenceKinds
  /\ ToolsIdle

SpecPersist == InitPersist /\ [][Next]_vars

\* execute() is one coroutine: once called it goes on as long as the executors of the
\* nodes return or raise
FairSpecPersist == SpecPersist /\ WF_vars(Next)

(***************************************************************************)
(* ToolOrchestrator: the capability registry.                              *)
(* Scores are kept as integers: reliability and cost in hundredths, the    *)
(* execution time estimate in tenths of a second.                          *)
(***************************************************************************)
Capability(reliability, cost, time) ==
  [dependencies |-> {}, reliability_score |-> reliability, cost_score |-> cost,
   execution_time_estimate |-> time]

\* _build_capability_registry, lines 110-181: the standard tools
tool_definitions ==
  [web_search    |-> Capability(95, 20, 30),
   email         |-> Capability(98, 10, 20),
   slack         |-> Capability(97, 5, 15),
   calendar      |-> Capability(96, 15, 25),
   notion        |-> Capability(94, 25, 35),
   github        |-> Capability(98, 10, 20),
   data_analyzer |-> Capability(92, 80, 100)]

\* lines 189-195 with the defaults of the ToolCapability dataclass, lines 48-51
BasicCapability == Capability(95, 10, 10)

\* lines 184-195: one capability for each registered callable
_build_capability_registry(available) ==
  [t \in available |->
     IF t \in DOMAIN tool_definitions THEN tool_definitions[t] ELSE BasicCapability]

\* self.tool_capabilities, built once from the registered callables
tool_capabilities == _build_capability_registry(capability_registry)

\* ToolCapability.dependencies, line 48, as read at line 439: what the registry gave the
\* capability of the tool and what has been declared on it since; the list is kept as
\* the set of its elements (line 446 makes a set of it)
DeclaredDependencies(t) ==
  tool_capabilities[t].dependencies
    \cup {e[2] : e \in {x \in capability_dependencies : x[1] = t}}

\* the order of Python on the tool names ((priority, tool) tuples are compared)
ToolNameOrder ==
  <<"calendar", "custom_tool", "data_analyzer", "email", "github", "notion", "slack",
    "web_search">>

NameRank(t) == IndexOf(ToolNameOrder, t)

(***************************************************************************)
(* ToolOrchestrator: the dependencies of the selected tools.               *)
(***************************************************************************)
\* ctx.get(key, default) followed by the truth test of the rule
CtxGet(value, default) == IF value = "absent" THEN default ELSE value = "true"

\* _infer_tool_dependencies, lines 455-472
dependency_rules ==
  [email  |-> <<"web_search">>,
   slack  |-> <<"web_search">>,
   notion |-> <<"web_search", "data_analyzer">>,
   github |-> <<"data_analyzer">>]

RuleCondition(tool_name, ctx) ==
  CASE tool_name = "email"  -> CtxGet(ctx.search_before_email, TRUE)
    [] tool_name = "slack"  -> "search" \in ctx.user_request
    [] tool_name = "notion" -> CtxGet(ctx.analyze_before_document, FALSE)
    [] tool_name = "github" -> "analyze" \in ctx.user_request

\* an inference that finds no dependency
InfersNothing(tool_name, tools, ctx) == <<>>

\* lines 474-481
_infer_tool_dependencies(tool_name, tools, ctx) ==
  IF tool_name \in DOMAIN dependency_rules /\ RuleCondition(tool_name, ctx)
  THEN SelectSeq(dependency_rules[tool_name], LAMBDA dep : dep \in Range(tools))
  ELSE <<>>

\* lines 430-448: declared and inferred dependencies, without the tool itself and
\* without the tools that are not selected
_build_tool_dependencies(tools, ctx) ==
  [t \in Range(tools) |->
     LET tool_deps == IF t \in DOMAIN tool_capabilities
                      THEN DeclaredDependencies(t)
                             \cup Range(_infer_tool_dependencies(t, tools, ctx))
                      ELSE {}
     IN  {dep \in tool_deps : dep # t /\ dep \in Range(tools)}]

(***************************************************************************)
(* ToolOrchestrator: the execution order.                                  *)
(***************************************************************************)
\* _calculate_tool_priorities, lines 515-539; int() truncates
_calculate_tool_priorities(tools, in_degree) ==
  [t \in Range(tools) |->
     (IF t \in DOMAIN tool_capabilities
      THEN LET capability == tool_capabilities[t]
           IN  (((100 - capability.reliability_score) * 10) \div 100)
                 + ((capability.cost_score * 10) \div 100)
                 + (capability.execution_time_estimate \div 50)
      ELSE 0)
     + in_degree[t] * 2]

\* the order of the (priority, tool) tuples
EntryBefore(a, b) ==
  a.priority < b.priority \/ (a.priority = b.priority /\ NameRank(a.tool) < NameRank(b.tool))

RECURSIVE QueueInsert(_, _)
QueueInsert(queue, entry) ==
  IF queue = <<>> THEN <<entry>>
  ELSE IF EntryBefore(entry, Head(queue)) THEN <<entry>> \o queue
       ELSE <<Head(queue)>> \o QueueInsert(Tail(queue), entry)

\* queue.sort()
RECURSIVE QueueSort(_)
QueueSort(queue) ==
  IF queue = <<>> THEN <<>> ELSE QueueInsert(QueueSort(Tail(queue)), Head(queue))

\* lines 486-491
ToolInDegree(tools, dependencies) ==
  [t \in Range(tools) |-> Cardinality({dep \in dependencies[t] : dep \in Range(tools)})]

\* the keys of a dictionary filled in the order of the list
RECURSIVE DictKeys(_, _)
DictKeys(tools, keys) ==
  IF tools = <<>> THEN keys
  ELSE DictKeys(Tail(tools),
                IF Head(tools) \in Range(keys) THEN keys ELSE Append(keys, Head(tools)))

\* lines 494-496: the tools that wait for nothing, sorted
InitialToolQueue(tools, in_degree) ==
  LET priorities == _calculate_tool_priorities(tools, in_degree)
      keys       == DictKeys(tools, <<>>)
      ready      == SelectSeq(keys, LAMBDA t : in_degree[t] = 0)
  IN  QueueSort([i \in DOMAIN ready |-> [priority |-> priorities[ready[i]], tool |-> ready[i]]])

\* lines 505-511: the pass over the tools list (an entry for each occurrence of a tool)
RECURSIVE UpdateInDegrees(_, _, _, _, _)
UpdateInDegrees(rest, tools, dependencies, current, st) ==
  IF rest = <<>> THEN st
  ELSE LET tool == Head(rest)
       IN  IF current \in dependencies[tool]
           THEN LET deg == [st.in_degree EXCEPT ![tool] = @ - 1]
                    q   == IF deg[tool] = 0
                           THEN QueueSort(Append(st.queue,
                                  [priority |-> _calculate_tool_priorities(tools, deg)[tool],
                                   tool |-> tool]))
                           ELSE st.queue
                IN  UpdateInDegrees(Tail(rest), tools, dependencies, current,
                                    [in_degree |-> deg, queue |-> q])
           ELSE UpdateInDegrees(Tail(rest), tools, dependencies, current, st)

\* lines 500-511: the while loop
RECURSIVE ToolOrderLoop(_, _, _, _)
ToolOrderLoop(tools, dependencies, st, order) ==
  IF st.queue = <<>> THEN order
  ELSE LET current == Head(st.queue).tool
           popped  == [st EXCEPT !.queue = Tail(st.queue)]
       IN  ToolOrderLoop(tools, dependencies,
                         UpdateInDegrees(tools, tools, dependencies, current, popped),
                         Append(order, current))

\* ToolOrchestrator._calculate_execution_order, lines 483-513
ToolOrchestrator_calculate_execution_order(tools, dependencies) ==
  LET in_degree == ToolInDegree(tools, dependencies)
  IN  ToolOrderLoop(tools, dependencies,
                    [in_degree |-> in_degree, queue |-> InitialToolQueue(tools, in_degree)],
                    <<>>)

(***************************************************************************)
(* ToolOrchestrator: the waves.                                            *)
(***************************************************************************)
\* a wave that takes every ready tool, whatever the configured cap
NoCap(a, b) == b

\* line 563: the slice ready_tools[:max_parallel_tools]
Min(a, b) == IF a <= b THEN a ELSE b

\* the lists a Python set can be iterated as
Orderings(S) == {s \in [1..Cardinality(S) -> S] : Range(s) = S}

\* lines 552-556: the remaining tools all of whose dependencies are completed
ReadyTools(remaining, completed, dependencies) ==
  {tool \in remaining : dependencies[tool] \subseteq completed}

\* a wave loop that forces no tool: without a ready tool its wave is empty
TakesOnlyReady(remaining, completed, dependencies, cap) ==
  LET ready == ReadyTools(remaining, completed, dependencies)
  IN  UNION {Orderings(G) :
               G \in {H \in SUBSET ready : Cardinality(H) = Min(cap, Cardinality(ready))}}

\* lines 558-563: the wave taken from the remaining tools; the iteration order of the
\* set remaining_tools is not fixed by the code, so every order is possible
ParallelGroupChoices(remaining, completed, dependencies, cap) ==
  LET ready == ReadyTools(remaining, completed, dependencies)
  IN  IF ready = {}
      THEN {<<tool>> : tool \in remaining}
      ELSE UNION {Orderings(G) :
                    G \in {H \in SUBSET ready : Cardinality(H) = Min(cap, Cardinality(ready))}}

\* lines 550-571: the while loop
RECURSIVE GroupsFrom(_, _, _, _)
GroupsFrom(remaining, completed, dependencies, cap) ==
  IF remaining = {} THEN {<<>>}
  ELSE UNION {{<<group>> \o rest :
                 rest \in GroupsFrom(remaining \ Range(group), completed \cup Range(group),
                                     dependencies, cap)} :
              group \in ParallelGroupChoices(remaining, completed, dependencies, cap)}

\* _identify_parallel_groups, lines 541-571: the set of the lists it can return
_identify_parallel_groups(order, dependencies) ==
  IF ~enable_parallel_execution
  THEN {[i \in DOMAIN order |-> <<order[i]>>]}
  ELSE GroupsFrom(Range(order), {}, dependencies, max_parallel_tools)

\* _determine_execution_priority, lines 592-604; user_request is kept as the set of
\* the words it contains
_determine_execution_priority(ctx) ==
  IF ctx.user_request \cap {"urgent", "asap", "critical", "emergency"} # {} THEN "CRITICAL"
  ELSE IF ctx.user_request \cap {"important", "priority", "soon"} # {} THEN "HIGH"
  ELSE IF ctx.user_request \cap {"background", "later", "whenever"} # {} THEN "LOW"
  ELSE "MEDIUM"

\* a validation that keeps every selected tool
EverySelectedTool == selected_tools

\* create_execution_plan, line 218
ValidTools == SelectSeq(selected_tools, LAMBDA tool : tool \in DOMAIN tool_capabilities)

\* self.tool_capabilities.get(tool, ToolCapability('', '', {}, {})): the estimate of a
\* tool, in tenths of a second, 1.0 for a tool without a capability
TimeEstimate(tool) ==
  IF tool \in DOMAIN tool_capabilities
  THEN tool_capabilities[tool].execution_time_estimate
  ELSE 10

\* sum(...) over a list
RECURSIVE SumOfEstimates(_)
SumOfEstimates(tools) ==
  IF tools = <<>> THEN 0 ELSE TimeEstimate(Head(tools)) + SumOfEstimates(Tail(tools))

\* max(...) over a group, which is never empty
MaxEstimate(group) ==
  LET times == {TimeEstimate(group[i]) : i \in DOMAIN group}
  IN  CHOOSE m \in times : \A t \in times : t <= m

RECURSIVE SumOfGroupTimes(_)
SumOfGroupTimes(groups) ==
  IF groups = <<>> THEN 0 ELSE MaxEstimate(Head(groups)) + SumOfGroupTimes(Tail(groups))

\* an estimate that adds up every tool in parallel mode too
EstimateAddsEveryTool(order, groups) == SumOfEstimates(order)

\* _estimate_execution_duration, lines 573-590
_estimate_execution_duration(order, groups) ==
  IF ~enable_parallel_execution
  THEN SumOfEstimates(order)
  ELSE SumOfGroupTimes(groups)

\* create_execution_plan, lines 217-256
CreatePlan ==
  /\ tpc = "idle"
  /\ ValidTools # <<>>
  /\ LET dependencies == _build_tool_dependencies(ValidTools, context)
         order        == ToolOrchestrator_calculate_execution_order(ValidTools, dependencies)
     IN  \E groups \in _identify_parallel_groups(order, dependencies) :
           plan' = [tools           |-> ValidTools,
                    execution_order |-> order,
                    dependencies    |-> dependencies,
                    parallel_groups |-> groups,
                    estimated_duration |-> _estimate_execution_duration(order, groups),
                    priority        |-> _determine_execution_priority(context)]
  /\ tpc' = "planned"
  /\ UNCHANGED wfvars
  /\ UNCHANGED <<cfgvars, planning, tool_execution_results, group_index, tool_index, tasks,
                 all_results, accumulated_context, workflow_context, terminated, outcomes, invocations>>

\* create_execution_plan, lines 224-225: ValueError("No valid tools selected")
RejectSelection ==
  /\ tpc = "idle"
  /\ ValidTools = <<>>
  /\ tpc' = "plan_error"
  /\ UNCHANGED wfvars
  /\ UNCHANGED <<cfgvars, planning, tool_execution_results, plan, group_index, tool_index,
                 tasks, all_results, accumulated_context, workflow_context, terminated, outcomes, invocations>>

(***************************************************************************)
(* The orchestration requests the model plans.                             *)
(***************************************************************************)
\* an executor without a workflow under way
WorkflowIdle ==
  /\ workflow = WorkflowOf(0, <<>>, <<>>, <<>>)
  /\ processing_mode = "production"
  /\ InitRest

StandardTools == DOMAIN tool_definitions

ContextOf(sbe, abd, words) ==
  [search_before_email |-> sbe, analyze_before_document |-> abd, user_request |-> words]

\* the tools the planned selections are drawn from; "unknown_tool" is never registered
PlanToolNames == {"web_search", "data_analyzer", "notion", "email", "unknown_tool"}

\* a selection that uses every rule of _infer_tool_dependencies, and one with a custom tool
WideSelections ==
  {<<"github", "data_analyzer", "slack", "web_search", "email", "calendar", "notion">>,
   <<"slack", "github", "custom_tool", "web_search", "data_analyzer">>,
   <<"custom_tool", "unknown_tool">>}

InitPlan ==
  /\ WorkflowIdle
  /\ available_tools \in {StandardTools \cup {"custom_tool"}, {"web_search", "email"}}
  /\ capability_registry = available_tools
  /\ enable_parallel_execution \in BOOLEAN
  /\ max_parallel_tools \in {MaxParallelChoice, max_parallel_tools_default}
  /\ retry_attempts = retry_attempts_default
  /\ \/ /\ selected_tools \in SeqsUpTo(PlanToolNames, MaxSelected)
        /\ context \in {ContextOf(sbe, abd, {}) :
                          sbe \in {"absent", "true", "false"}, abd \in {"absent", "true"}}
     \/ /\ selected_tools \in WideSelections
        /\ context \in {ContextOf(sbe, abd, words) :
                          sbe \in {"absent", "false"}, abd \in {"false", "true"},
                          words \in {{"search"}, {"analyze", "urgent"}, {"soon"}, {"later"}}}
  /\ ToolsRest

NextPlan == CreatePlan \/ RejectSelection

SpecPlan == InitPlan /\ [][NextPlan]_vars

(***************************************************************************)
(* create_execution_plan, one iteration of its loops at a time, on         *)
(* capabilities that declare dependencies.                                 *)
(***************************************************************************)
\* create_execution_plan, lines 217-231, and _calculate_execution_order, lines 486-498:
\* up to the first test of the while loop
BeginPlan ==
  /\ tpc = "idle"
  /\ ValidTools # <<>>
  /\ LET dependencies == _build_tool_dependencies(ValidTools, context)
         in_degree    == ToolInDegree(ValidTools, dependencies)
     IN  planning' = [NoPlanning EXCEPT
                        !.stage = "order",
                        !.dependencies = dependencies,
                        !.st = [in_degree |-> in_degree,
                                queue |-> InitialToolQueue(ValidTools, in_degree)]]
  /\ tpc' = "planning"
  /\ UNCHANGED wfvars
  /\ UNCHANGED <<cfgvars, tool_execution_results, plan, group_index, tool_index,
                 tasks, all_results, accumulated_context, workflow_context, terminated, outcomes, invocations>>

\* _calculate_execution_order, lines 500-511: one iteration of the while loop
OrderStep ==
  /\ tpc = "planning"
  /\ planning.stage = "order"
  /\ planning.st.queue # <<>>
  /\ LET current == Head(planning.st.queue).tool
         popped  == [planning.st EXCEPT !.queue = Tail(planning.st.queue)]
     IN  planning' = [planning EXCEPT
                        !.st = UpdateInDegrees(ValidTools, ValidTools,
                                               planning.dependencies, current, popped),
                        !.order = Append(planning.order, current)]
  /\ UNCHANGED wfvars
  /\ UNCHANGED <<cfgvars, tool_execution_results, tpc, plan, group_index, tool_index,
                 tasks, all_results, accumulated_context, workflow_context, terminated, outcomes, invocations>>

\* line 513 and _identify_parallel_groups, lines 541-548: the order is returned and the
\* waves are begun; without parallel execution they are the singletons of the order
OrderReturns ==
  /\ tpc = "planning"
  /\ planning.stage = "order"
  /\ planning.st.queue = <<>>
  /\ planning' = IF ~enable_parallel_execution
                 THEN [planning EXCEPT
                         !.stage = "groups",
                         !.groups = [i \in DOMAIN planning.order |-> <<planning.order[i]>>]]
                 ELSE [planning EXCEPT
                         !.stage = "groups",
                         !.remaining = Range(planning.order)]
  /\ UNCHANGED wfvars
  /\ UNCHANGED <<cfgvars, tool_execution_results, tpc, plan, group_index, tool_index,
                 tasks, all_results, accumulated_context, workflow_context, terminated, outcomes, invocations>>

\* _identify_parallel_groups, lines 550-569: one iteration of the while loop
WaveStep ==
  /\ tpc = "planning"
  /\ planning.stage = "groups"
  /\ planning.remaining # {}
  /\ \E group \in ParallelGroupChoices(planning.remaining, planning.completed,
                                        planning.dependencies, max_parallel_tools) :
       planning' = [planning EXCEPT
                      !.groups = Append(planning.groups, group),
                      !.remaining = planning.remaining \ Range(group),
                      !.completed = planning.completed \cup Range(group)]
  /\ UNCHANGED wfvars
  /\ UNCHANGED <<cfgvars, tool_execution_results, tpc, plan, group_index, tool_index,
                 tasks, all_results, accumulated_context, workflow_context, terminated, outcomes, invocations>>

\* line 571 and create_execution_plan, lines 236-256: the plan is returned
FinishPlan ==
  /\ tpc = "planning"
  /\ planning.stage = "groups"
  /\ planning.remaining = {}
  /\ plan' = [tools           |-> ValidTools,
              execution_order |-> planning.order,
              dependencies    |-> planning.dependencies,
              parallel_groups |-> planning.groups,
              estimated_duration |->
                _estimate_execution_duration(planning.order, planning.groups),
              priority        |-> _determine_execution_priority(context)]
  /\ planning' = [planning EXCEPT !.stage = "returned"]
  /\ tpc' = "planned"
  /\ UNCHANGED wfvars
  /\ UNCHANGED <<cfgvars, tool_execution_results, group_index, tool_index,
                 tasks, all_results, accumulated_context, workflow_context, terminated, outcomes, invocations>>

\* the tools whose capabilities declare dependencies in the stepwise runs
LoopToolNames == {"web_search", "email", "slack"}

\* the dependencies a capability can declare on another of these tools
DeclarablePairs == {e \in LoopToolNames \X LoopToolNames : e[1] # e[2]}

\* notion, selected twice, waits for web_search and for email; email and slack wait for
\* each other; slack declares itself
TangledSelection == <<"web_search", "notion", "notion", "email", "slack">>

TangledDependencies ==
  {<<"notion", "web_search">>, <<"notion", "email">>, <<"email", "slack">>,
   <<"slack", "email">>, <<"slack", "slack">>}

InitLoops ==
  /\ WorkflowIdle
  /\ available_tools = StandardTools
  /\ capability_registry = available_tools
  /\ enable_parallel_execution \in BOOLEAN
  /\ max_parallel_tools = MaxParallelChoice
  /\ retry_attempts = retry_attempts_default
  /\ \/ /\ selected_tools \in SeqsUpTo(LoopToolNames, MaxLoopSelected)
        /\ capability_dependencies \in
             {D \in SUBSET DeclarablePairs : Cardinality(D) <= MaxDeclared}
        /\ context = ContextOf("absent", "absent", {})
     \/ /\ selected_tools = TangledSelection
        /\ capability_dependencies = TangledDependencies
        /\ context = ContextOf("false", "absent", {})
  /\ ToolsNotBegun

NextLoops ==
  BeginPlan \/ OrderStep \/ OrderReturns \/ WaveStep \/ FinishPlan \/ RejectSelection

SpecLoops == InitLoops /\ [][NextLoops]_vars

\* create_execution_plan has no await between its first and its last line, so once
\* called it takes its next step as long as it has one
FairSpecLoops == SpecLoops /\ WF_vars(NextLoops)

(***************************************************************************)
(* ToolOrchestrator: the execution of a plan.                              *)
(* A call of _execute_single_tool is a task: "scheduled" until the event   *)
(* loop runs it, "running" while tool_instance.execute is awaited,         *)
(* "sleeping" during the backoff, "done" once it has returned its result.  *)
(***************************************************************************)
NewTask == [state |-> "scheduled", attempt |-> 0, status |-> "pending", called |-> FALSE]

\* lines 383-389: the call of the tool, with the wave it belongs to (0 in sequential
\* mode) and the seconds slept since the previous attempt
Invocation(tool_name, attempt, wave, backoff) ==
  [tool_name |-> tool_name, attempt |-> attempt, wave |-> wave, backoff |-> backoff]

ParallelMode == enable_parallel_execution /\ plan.parallel_groups # <<>>

CurrentGroup == plan.parallel_groups[group_index]

\* lines 380-389: the tool is called unless it is missing from self.available_tools
\* (line 381 raises ValueError instead)
Calls(tool_name, attempt, wave, backoff) ==
  IF tool_name \in available_tools
  THEN {Invocation(tool_name, attempt, wave, backoff)}
  ELSE {}

\* the state of a task at the start of an attempt
Attempting(tool_name, attempt) ==
  [state |-> "running", attempt |-> attempt, status |-> "pending",
   called |-> tool_name \in available_tools]

\* the wave recorded with a call: 0 in sequential mode
WaveNow == IF tpc = "gather" THEN group_index ELSE 0

\* a retry loop that gives up one attempt before the configured number
GivesUpOneAttemptEarly(t) == tasks[t].attempt >= retry_attempts - 1

\* a loop over range(self.retry_attempts + 1)
TriesOnceMore(t) == tasks[t].attempt = retry_attempts + 1

\* lines 402 and 416: attempt == self.retry_attempts - 1, attempts being counted from 0
LastAttempt(t) == tasks[t].attempt = retry_attempts

\* a result that is marked failed whatever ended the last attempt
AlwaysFailed(outcome) == "failed"

\* lines 406 and 420: the status of the result after the last attempt
StatusAfter(outcome) == IF outcome = "timeout" THEN "timeout" ELSE "failed"

\* lines 393-399, 404-411, 418-425: the ToolExecutionResult of a call; the metadata
\* hold the number of the successful attempt, or retry_attempts
ResultOfTask(tool_name) ==
  [tool_name |-> tool_name, status |-> tasks[tool_name].status,
   attempts |-> IF tasks[tool_name].status = "success"
                THEN tasks[tool_name].attempt
                ELSE retry_attempts]

\* the place of the running call in the plan: its wave, or its index in
\* execution_order in sequential mode
Position == IF tpc = "gather" THEN group_index ELSE tool_index

\* how an attempt ended
Outcome(tool_name, attempt, outcome) ==
  [tool_name |-> tool_name, position |-> Position, attempt |-> attempt,
   outcome |-> outcome]

\* execute_tool_sequence, lines 271-280, up to the first suspension of the chosen mode
BeginExecution ==
  /\ tpc = "planned"
  /\ retry_attempts >= 1
  /\ all_results' = <<>>
  /\ accumulated_context' = workflow_context
  /\ IF ParallelMode
     THEN /\ tpc' = "gather"
          /\ group_index' = 1
          /\ tasks' = [t \in Range(plan.parallel_groups[1]) |-> NewTask]
          /\ UNCHANGED <<tool_index, invocations>>
     ELSE /\ tpc' = "sequential"
          /\ tool_index' = 1
          /\ tasks' = [t \in {plan.execution_order[1]} |-> Attempting(t, 1)]
          /\ invocations' = invocations \cup Calls(plan.execution_order[1], 1, 0, 0)
          /\ UNCHANGED group_index
  /\ UNCHANGED wfvars
  /\ UNCHANGED <<cfgvars, planning, tool_execution_results, plan, workflow_context, terminated,
                 outcomes>>

\* the synthetic result of execute_tool_sequence, lines 285-292
FailureResult == [tool_name |-> "execution_plan", status |-> "failed", attempts |-> 0]

\* the classes of the errors raised while a plan is executed: the AttributeError of
\* reading result.status on None, the ValueError of line 381, and the exception of a tool
ErrorClasses == {"AttributeError", "ValueError", "ToolError"}

\* an except clause that lets every error through
CatchesNothing(error) == FALSE

\* lines 282 and 415: `except Exception` catches every error of these classes
ExceptException(error) == error \in ErrorClasses

\* execute_tool_sequence, lines 271-304, with retry_attempts = 0: the retry loop of
\* _execute_single_tool (line 378) is empty and the call returns None; reading
\* result.status (line 340 or 359) raises AttributeError, which lines 282-292 turn
\* into the only result of the list
OrchestrationRaises ==
  /\ tpc = "planned"
  /\ retry_attempts = 0
  /\ IF ExceptException("AttributeError")
     THEN /\ all_results' = <<FailureResult>>
          /\ tpc' = "returned"
     ELSE /\ tpc' = "raised"
          /\ UNCHANGED all_results
  /\ UNCHANGED wfvars
  /\ UNCHANGED <<cfgvars, planning, tool_execution_results, plan, group_index, tool_index, tasks, accumulated_context, workflow_context,
                 terminated, outcomes, invocations>>

\* the event loop runs the tasks of asyncio.gather in the order they were created; a
\* task runs up to its first call of the tool (line 386)
TaskStarts(t) ==
  /\ tpc = "gather"
  /\ t \in DOMAIN tasks
  /\ tasks[t].state = "scheduled"
  /\ \A i \in 1..(IndexOf(CurrentGroup, t) - 1) : tasks[CurrentGroup[i]].state # "scheduled"
  /\ tasks' = [tasks EXCEPT ![t] = Attempting(t, 1)]
  /\ invocations' = invocations \cup Calls(t, 1, group_index, 0)
  /\ UNCHANGED wfvars
  /\ UNCHANGED <<cfgvars, planning, tool_execution_results, tpc, plan, group_index,
                 tool_index, all_results, accumulated_context, workflow_context, terminated, outcomes>>

Running(t) == tpc \in {"gather", "sequential"} /\ t \in DOMAIN tasks /\ tasks[t].state = "running"

\* lines 391-399: the tool returned before the deadline
AttemptSucceeds(t) ==
  /\ Running(t)
  /\ tasks[t].called
  /\ tasks' = [tasks EXCEPT ![t].state = "done", ![t].status = "success"]
  /\ terminated' = terminated \cup {t}
  /\ outcomes' = outcomes \cup {Outcome(t, tasks[t].attempt, "success")}
  /\ UNCHANGED wfvars
  /\ UNCHANGED <<cfgvars, planning, tool_execution_results, tpc, plan, group_index,
                 tool_index, all_results, accumulated_context, workflow_context, invocations>>

\* a deadline whose expiry ends every unfinished call of the wave
TimeoutCancelsWave(ts, t, task) ==
  [s \in DOMAIN ts |->
     IF s = t THEN task
     ELSE IF ts[s].state # "done" THEN [ts[s] EXCEPT !.state = "done", !.status = "failed"]
     ELSE ts[s]]

\* lines 386-389: asyncio.wait_for cancels the call it awaits and no other
TimedOut(ts, t, task) == [ts EXCEPT ![t] = task]

\* lines 401-413: asyncio.TimeoutError; the next attempt follows at once
AttemptTimesOut(t) ==
  /\ Running(t)
  /\ tasks[t].called
  /\ outcomes' = outcomes \cup {Outcome(t, tasks[t].attempt, "timeout")}
  /\ IF LastAttempt(t)
     THEN /\ tasks' = TimedOut(tasks, t, [tasks[t] EXCEPT !.state = "done",
                                                          !.status = StatusAfter("timeout")])
          /\ terminated' = terminated \cup {t}
          /\ UNCHANGED invocations
     ELSE /\ tasks' = TimedOut(tasks, t, Attempting(t, tasks[t].attempt + 1))
          /\ invocations' = invocations \cup Calls(t, tasks[t].attempt + 1, WaveNow, 0)
          /\ UNCHANGED terminated
  /\ UNCHANGED wfvars
  /\ UNCHANGED <<cfgvars, planning, tool_execution_results, tpc, plan, group_index,
                 tool_index, all_results, accumulated_context, workflow_context>>

\* the error of an attempt that did not time out: the ValueError of line 381 when the
\* tool is missing from the registry, else an exception of the tool
ErrorOf(t) == IF tasks[t].called THEN "ToolError" ELSE "ValueError"

\* lines 415-428: any other exception, the ValueError of line 381 included;
\* asyncio.sleep(1.0 * (attempt + 1)) before a retry
AttemptRaises(t) ==
  /\ Running(t)
  /\ IF ExceptException(ErrorOf(t))
     THEN /\ outcomes' = outcomes \cup {Outcome(t, tasks[t].attempt, "error")}
          /\ IF LastAttempt(t)
             THEN /\ tasks' = [tasks EXCEPT ![t].state = "done",
                                            ![t].status = StatusAfter("error")]
                  /\ terminated' = terminated \cup {t}
             ELSE /\ tasks' = [tasks EXCEPT ![t].state = "sleeping"]
                  /\ UNCHANGED terminated
          /\ UNCHANGED tpc
     ELSE /\ tpc' = "raised"
          /\ UNCHANGED <<outcomes, tasks, terminated>>
  /\ UNCHANGED wfvars
  /\ UNCHANGED <<cfgvars, planning, tool_execution_results, plan, group_index,
                 tool_index, all_results, accumulated_context, workflow_context, invocations>>

\* line 428 returns: the next iteration of the retry loop calls the tool again
BackoffElapses(t) ==
  /\ tpc \in {"gather", "sequential"}
  /\ t \in DOMAIN tasks
  /\ tasks[t].state = "sleeping"
  /\ tasks' = [tasks EXCEPT ![t] = Attempting(t, tasks[t].attempt + 1)]
  /\ invocations' = invocations \cup Calls(t, tasks[t].attempt + 1, WaveNow, tasks[t].attempt)
  /\ UNCHANGED wfvars
  /\ UNCHANGED <<cfgvars, planning, tool_execution_results, tpc, plan, group_index,
                 tool_index, all_results, accumulated_context, workflow_context, terminated, outcomes>>

\* a gather that returns as soon as one of its tasks has a result
GatherReturnsOnFirstResult(ts) == \E t \in DOMAIN ts : ts[t].state = "done"

\* line 323: asyncio.gather returns when every task has returned
GatherReturns(ts) == \A t \in DOMAIN ts : ts[t].state = "done"

\* a merge that takes the result of every tool of the wave
MergesEveryResult(ts) == DOMAIN ts

\* lines 340-341: the results merged into the accumulated context are the successful ones
SuccessfulTools(ts) == {t \in DOMAIN ts : ts[t].status = "success"}

\* accumulated_context = workflow_context, without copy(): one dict under two names
SharedWithCaller(own, private) == private

\* lines 311 and 350: accumulated_context is workflow_context.copy(), a dict of its
\* own, so a key assigned to it (lines 341 and 360) is not assigned to the map of the
\* caller
MapOfCaller(own, private) == own

\* the results of a wave taken from its last task to its first
GatheredInReverse(group) ==
  [i \in DOMAIN group |-> ResultOfTask(group[Len(group) + 1 - i])]

\* lines 322-338: asyncio.gather returns the results in the order of the tasks, which
\* is the order of the members of the group
GatheredResults(group) == [i \in DOMAIN group |-> ResultOfTask(group[i])]

\* _execute_parallel_groups, lines 323-343: the results of the wave are appended in the
\* order of the group, the successful ones are merged into the accumulated context,
\* then the next wave is created or the list is returned (lines 294-304)
JoinWave ==
  /\ tpc = "gather"
  /\ GatherReturns(tasks)
  /\ all_results' = all_results \o GatheredResults(CurrentGroup)
  /\ accumulated_context' =
       accumulated_context \cup SuccessfulTools(tasks)
  /\ workflow_context' = MapOfCaller(workflow_context, accumulated_context')
  /\ IF group_index < Len(plan.parallel_groups)
     THEN /\ group_index' = group_index + 1
          /\ tasks' = [t \in Range(plan.parallel_groups[group_index + 1]) |-> NewTask]
          /\ UNCHANGED tpc
     ELSE /\ tpc' = "returned"
          /\ tasks' = <<>>
          /\ UNCHANGED group_index
  /\ UNCHANGED wfvars
  /\ UNCHANGED <<cfgvars, planning, tool_execution_results, plan, tool_index, terminated, outcomes,
                 invocations>>

CurrentTool == plan.execution_order[tool_index]

\* a sequential loop that never stops before the end of execution_order
NeverStops(status, priority) == FALSE

\* lines 364-365: the condition of the break
StopsAfter(status, priority) == status = "failed" /\ priority \in {"CRITICAL", "HIGH"}

\* _execute_sequential, lines 355-368: the result of the tool is appended and merged,
\* then the loop stops, calls the next tool or ends (lines 294-304)
SequentialNext ==
  /\ tpc = "sequential"
  /\ tasks[CurrentTool].state = "done"
  /\ all_results' = Append(all_results, ResultOfTask(CurrentTool))
  /\ accumulated_context' =
       IF tasks[CurrentTool].status = "success"
       THEN accumulated_context \cup {CurrentTool}
       ELSE accumulated_context
  /\ workflow_context' = MapOfCaller(workflow_context, accumulated_context')
  /\ IF \/ StopsAfter(tasks[CurrentTool].status, plan.priority)
        \/ tool_index = Len(plan.execution_order)
     THEN /\ tpc' = "returned"
          /\ tasks' = <<>>
          /\ UNCHANGED <<tool_index, invocations>>
     ELSE /\ tool_index' = tool_index + 1
          /\ tasks' = [t \in {plan.execution_order[tool_index + 1]} |-> Attempting(t, 1)]
          /\ invocations' =
               invocations \cup Calls(plan.execution_order[tool_index + 1], 1, 0, 0)
          /\ UNCHANGED tpc
  /\ UNCHANGED wfvars
  /\ UNCHANGED <<cfgvars, planning, tool_execution_results, plan, group_index, terminated, outcomes>>

\* BrainNode._execute_selected_tools, lines 487-495: the list of execute_tool_sequence
\* is returned to BrainNode.execute (line 193)
BrainReturnsResults ==
  /\ tpc = "returned"
  /\ selected_tools # <<>>
  /\ ~tool_execution_results.returned
  /\ tool_execution_results' = [returned |-> TRUE, results |-> all_results]
  /\ UNCHANGED wfvars
  /\ UNCHANGED <<cfgvars, planning, tpc, plan, group_index, tool_index, tasks, all_results,
                 accumulated_context, workflow_context, terminated, outcomes, invocations>>

\* BrainNode._execute_selected_tools, lines 497-499: the ValueError of
\* create_execution_plan is logged and an empty list is returned
BrainCatches ==
  /\ tpc = "plan_error"
  /\ selected_tools # <<>>
  /\ ~tool_execution_results.returned
  /\ tool_execution_results' = [returned |-> TRUE, results |-> <<>>]
  /\ UNCHANGED wfvars
  /\ UNCHANGED <<cfgvars, planning, tpc, plan, group_index, tool_index, tasks, all_results,
                 accumulated_context, workflow_context, terminated, outcomes, invocations>>

(***************************************************************************)
(* The orchestration requests the model executes.                          *)
(***************************************************************************)
ExecToolNames == {"web_search", "email", "unknown_tool"}

\* the tool BrainNode.disconnect_tool (lines 298-303) may have removed from
\* self.available_tools; its capability stays in self.tool_capabilities
DisconnectedTools == {"email"}

\* the orchestrator was built with the standard tools; the words of the request are
\* varied where the selection is fixed and in sequential mode
InitTools ==
  /\ WorkflowIdle
  /\ capability_registry = StandardTools
  /\ available_tools \in {capability_registry, capability_registry \ DisconnectedTools}
  /\ max_parallel_tools \in {MaxParallelChoice, max_parallel_tools_default}
  /\ \/ /\ enable_parallel_execution = TRUE
        /\ retry_attempts \in 0..MaxRetries
        /\ selected_tools \in SeqsUpTo(ExecToolNames, MaxExecSelected)
        /\ context \in {ContextOf(sbe, "absent", {}) : sbe \in {"absent", "false"}}
     \/ /\ enable_parallel_execution = TRUE
        /\ retry_attempts = 1
        /\ selected_tools = <<"email", "calendar", "web_search">>
        /\ context \in {ContextOf(sbe, "absent", words) :
                           sbe \in {"absent", "false"}, words \in {{}, {"urgent"}}}
     \/ /\ enable_parallel_execution = FALSE
        /\ retry_attempts \in 0..MaxRetries
        /\ selected_tools \in SeqsUpTo(ExecToolNames, MaxExecSelected)
        /\ context \in {ContextOf("absent", "absent", words) : words \in {{}, {"urgent"}}}
  /\ ToolsRest

NextTools ==
  \/ CreatePlan
  \/ RejectSelection
  \/ BeginExecution
  \/ OrchestrationRaises
  \/ \E t \in StandardTools : TaskStarts(t)
  \/ \E t \in StandardTools : AttemptSucceeds(t)
  \/ \E t \in StandardTools : AttemptTimesOut(t)
  \/ \E t \in StandardTools : AttemptRaises(t)
  \/ \E t \in StandardTools : BackoffElapses(t)
  \/ JoinWave
  \/ SequentialNext
  \/ BrainReturnsResults
  \/ BrainCatches

SpecTools == InitTools /\ [][NextTools]_vars

(***************************************************************************)
(* A workflow run whose brain nodes call the orchestrator.                 *)
(***************************************************************************)
\* two brain nodes, the first with validation errors, and a node of an unregistered
\* type, in a chain
BrainChainWorkflow ==
  [nodes |-> <<Node(1, "brain", TRUE), Node(2, "brain", FALSE),
               Node(3, "externalApp", FALSE)>>,
   connections |-> <<Conn(1, 2), Conn(2, 3)>>]

\* two valid brain nodes in a chain
BrainPairWorkflow ==
  [nodes |-> <<Node(1, "brain", FALSE), Node(2, "brain", FALSE)>>,
   connections |-> <<Conn(1, 2)>>]

\* the selections the reasoning of a brain node is taken to produce
RunSelections ==
  {<<"web_search", "email">>, <<"email", "calendar", "web_search">>, <<"unknown_tool">>}

\* WorkflowExecutor._execute_processed_node, lines 157-164: only a brain node is given
\* the orchestrator of the run
AtBrainNode == pc = "running" /\ CurrentNode.node_type \in {"brain", "BrainNode"}

\* the orchestrator is serving the node that is executing
InBrainNode == AtBrainNode /\ tools_node = CurrentId

\* a brain node that goes on without awaiting the orchestrator
NeverWaits == pc = "running"

\* the node that is executing is not waiting for the orchestrator
ToolsSettled ==
  /\ pc = "running"
  /\ tools_node # CurrentId \/ tool_execution_results.returned

\* BrainNode.execute lines 187-193 and _execute_selected_tools lines 471-486: the
\* reasoning has selected tools and the orchestrator of the run is asked for a plan; the
\* context holds the keys workflow_memory, user_request and brain_reasoning only
BrainSelectsTools ==
  /\ AtBrainNode
  /\ tools_node # CurrentId
  /\ tools_node' = CurrentId
  /\ selected_tools' \in RunSelections
  /\ context' = ContextOf("absent", "absent", {})
  /\ tool_execution_results' = NoToolResults
  /\ tpc' = "idle"
  /\ planning' = NoPlanning
  /\ plan' = NoPlan
  /\ group_index' = 0
  /\ tool_index' = 0
  /\ tasks' = <<>>
  /\ all_results' = <<>>
  /\ accumulated_context' = {}
  /\ terminated' = {}
  /\ outcomes' = {}
  /\ invocations' = {}
  /\ UNCHANGED wfvars
  /\ UNCHANGED <<available_tools, capability_registry, capability_dependencies,
                 enable_parallel_execution, max_parallel_tools, retry_attempts,
                 workflow_context>>

\* the steps of the orchestrator while the brain node awaits _execute_selected_tools
BrainAwaitsTools == InBrainNode /\ NextTools

\* BrainNode.execute, lines 195-230: the node returns after the orchestration, or
\* without one when no tool was selected
BrainNodeReturns == ToolsSettled /\ NodeReturns

\* BrainNode.execute raises outside the awaited orchestration
BrainNodeRaises == ToolsSettled /\ NodeRaises

\* the executor of the run was built with the standard tools (WorkflowExecutor.__init__,
\* lines 53-58)
InitRun ==
  /\ workflow \in {BrainChainWorkflow, BrainPairWorkflow}
  /\ processing_mode \in RunModes
  /\ InitRest
  /\ capability_registry = StandardTools
  /\ available_tools = capability_registry
  /\ enable_parallel_execution \in BOOLEAN
  /\ max_parallel_tools \in {MaxParallelChoice, max_parallel_tools_default}
  /\ retry_attempts = 1
  /\ selected_tools = <<>>
  /\ context = ContextOf("absent", "absent", {})
  /\ ToolsRest

NextRun ==
  \/ StartWorkflow
  \/ SkipNode
  \/ BeginNode
  \/ UnknownNodeType
  \/ BrainSelectsTools
  \/ BrainAwaitsTools
  \/ BrainNodeReturns
  \/ BrainNodeRaises
  \/ FinishWorkflow

SpecRun == InitRun /\ [][NextRun]_vars

(***************************************************************************)
(* Vocabulary of the properties of the workflow level.                     *)
(***************************************************************************)
DeclaredIds == {workflow.nodes[i].node_id : i \in DOMAIN workflow.nodes}

Connections == Range(workflow.connections)

Pos(n) == IndexOf(execution_order, n)

InOrder(n) == n \in Range(execution_order)

StartedIds == [i \in DOMAIN started |-> started[i].node_id]

TypeOf(n) == ProcessedNode(processed_nodes, n).node_type

Ordered == pc # "init"

LastStatus == IF persist_log = <<>> THEN "running" ELSE persist_log[Len(persist_log)].status

Completed == pc = "done" /\ LastStatus = "completed"

Failed == pc = "done" /\ LastStatus = "failed"

\* the positions of execution_order whose turn of the loop has begun
TurnsBegun ==
  IF pc = "init" THEN 0
  ELSE IF pc = "running" \/ (pc = "done" /\ idx <= Len(execution_order)) THEN idx
  ELSE idx - 1

\* the declared direct predecessors and all sources of connections into n
SourcesInto(n) == {c.from : c \in {d \in Connections : d.to = n}}

ErrorEventsOf(n) ==
  {i \in DOMAIN events : events[i].type = "execution_error" /\ events[i].node_id = n}

HasResult(n) == n \in Range(ResultIds(node_results))

\* a path of at most k connections between declared nodes
RECURSIVE Reaches(_, _, _)
Reaches(a, b, k) ==
  IF k = 0 THEN FALSE
  ELSE \/ \E c \in Connections : c.from = a /\ c.to = b
       \/ \E m \in DeclaredIds :
            /\ \E c \in Connections : c.from = a /\ c.to = m
            /\ Reaches(m, b, k - 1)

HasCycle == \E n \in DeclaredIds : Reaches(n, n, Cardinality(DeclaredIds))

(***************************************************************************)
(* C1.  The execution order places u before v for every connection (u, v)  *)
(* whose two ends appear in it, and the nodes are started in exactly that  *)
(* order, one after the other: the started nodes are, in order, the nodes  *)
(* of the order whose turn has begun and that were neither passed over nor *)
(* of an unregistered type.  The chain Input -> Brain -> Output is ordered *)
(* [Input, Brain, Output]; the diamond has A first and D last.             *)
(***************************************************************************)
C1_TopologicalStartOrder ==
  /\ \A c \in Connections :
       (InOrder(c.from) /\ InOrder(c.to)) => Pos(c.from) < Pos(c.to)
  /\ Ordered =>
       StartedIds = SelectSeq(SubSeq(execution_order, 1, TurnsBegun),
                              LAMBDA n : ~Skipped(n) /\ TypeOf(n) \in NODE_CLASSES)
  /\ pc = "running" => StartedIds[Len(started)] = execution_order[idx]
  /\ (Ordered /\ workflow = ChainWorkflow) => execution_order = <<1, 2, 3>>
  /\ (Ordered /\ workflow = DiamondWorkflow) =>
       /\ Len(execution_order) = 4
       /\ execution_order[1] = 1
       /\ execution_order[4] = 4

\* the diamond ran to its end: A, then B and C, then D were started
C1_Witness ==
  /\ workflow = DiamondWorkflow
  /\ Completed
  /\ Len(started) = 4
  /\ StartedIds[1] = 1
  /\ StartedIds[4] = 4

C3_CycleNeverCompletes ==
  HasCycle =>
    /\ \A i \in DOMAIN events : events[i].type # "workflow_finished"
    /\ \A i \in DOMAIN persist_log : persist_log[i].status # "completed"

(***************************************************************************)
(* C4.  Whenever a run ends with status completed, every node of the       *)
(* workflow graph has been executed exactly once in it, and the persisted  *)
(* results hold one entry per node.                                        *)
(***************************************************************************)
C4_CompletedRanEveryNode ==
  Completed =>
    /\ \A n \in DeclaredIds : Cardinality({i \in DOMAIN started : started[i].node_id = n}) = 1
    /\ Range(persist_log[Len(persist_log)].results) = DeclaredIds
    /\ Len(persist_log[Len(persist_log)].results) = Cardinality(DeclaredIds)

CriticalEvent(i) ==
  \/ TypeOf(events[i].node_id) \in {"input", "brain"}
  \/ events[i].error \in {"ValueError", "TypeError", "KeyError"}

C6_FailureResultAborts ==
  \A k \in DOMAIN node_results :
    ~node_results[k].success =>
      /\ \A j \in DOMAIN started :
           Pos(started[j].node_id) <= Pos(node_results[k].node_id)
      /\ ~Completed
      /\ (pc = "done" => Failed)

(***************************************************************************)
(* C7.  When the scheduler reaches a node whose type is not in the node    *)
(* registry, the run fails: no node that follows it in the execution order *)
(* is started, and the run ends failed and never completed.                *)
(***************************************************************************)
\* the loop has called _execute_processed_node for position i of the order
Reached(i) ==
  /\ Ordered
  /\ ~Skipped(execution_order[i])
  /\ idx >= i
  /\ ~(pc = "loop" /\ idx = i)

NodeListIds == NodeIds(workflow)

\* the targets of the connections leaving u, in the order of the connection list
TargetsOf(u) ==
  LET cs == SelectSeq(workflow.connections, LAMBDA c : c.from = u)
  IN  [i \in DOMAIN cs |-> cs[i].to]

MaxOf(S) == CHOOSE x \in S : \A y \in S : y <= x

\* when a node of the order is discovered: <<0, place in the node list>> for a
\* node without incoming connection, else <<place of its last predecessor in the
\* order, place of the last connection to it among those of that predecessor>>
DiscoveryKey(v) ==
  IF SourcesInto(v) = {} THEN <<0, IndexOf(NodeListIds, v)>>
  ELSE LET lp == MaxOf({Pos(u) : u \in SourcesInto(v)})
       IN  <<lp, LastIndexOf(TargetsOf(execution_order[lp]), v)>>

KeyBefore(a, b) == a[1] < b[1] \/ (a[1] = b[1] /\ a[2] < b[2])

C8_FifoByDiscovery ==
  /\ \A i, j \in DOMAIN execution_order :
       i < j => KeyBefore(DiscoveryKey(execution_order[i]), DiscoveryKey(execution_order[j]))
  /\ Ordered => \A n \in DeclaredIds : SourcesInto(n) = {} => InOrder(n)

\* two nodes were ready at the start and two more were discovered by one node
C8_Witness ==
  /\ Ordered
  /\ \E a, b \in DeclaredIds :
       /\ a # b
       /\ SourcesInto(a) = {}
       /\ SourcesInto(b) = {}
       /\ InOrder(a)
       /\ InOrder(b)
       /\ Pos(a) < Pos(b)
       /\ \E v \in DeclaredIds : InOrder(v) /\ SourcesInto(v) = {a, b}

(***************************************************************************)
(* Vocabulary of the properties of the tool orchestration.                 *)
(***************************************************************************)
Planned == tpc # "idle" /\ tpc # "plan_error"

\* the waves of the plan that hold the tool
WavesOf(tool) ==
  {k \in DOMAIN plan.parallel_groups : tool \in Range(plan.parallel_groups[k])}

\* the tools of the plan that depend on one another
DependentPairs ==
  {pair \in (DOMAIN plan.dependencies) \X (DOMAIN plan.dependencies) :
     pair[1] \in plan.dependencies[pair[2]]}

(***************************************************************************)
(* C9: in every plan produced by create_execution_plan, a selected tool    *)
(* on which another selected tool depends (by declaration or by inference  *)
(* from the context) is in a wave of parallel_groups whose index is        *)
(* strictly smaller than the index of the wave of the dependent tool.      *)
(***************************************************************************)
C9_DependencyInEarlierWave ==
  Planned =>
    \A pair \in DependentPairs :
      /\ WavesOf(pair[1]) # {}
      /\ WavesOf(pair[2]) # {}
      /\ \A i \in WavesOf(pair[1]), j \in WavesOf(pair[2]) : i < j

\* ToolExecutionStatus, lines 21-28: the statuses of a finished call
TerminalStatuses == {"success", "failed", "timeout"}

\* the tools of the waves before wave k
ToolsBefore(k) == UNION {Range(plan.parallel_groups[j]) : j \in 1..(k - 1)}

\* the tools whose result is in the list of results with a terminal status
TerminalResults ==
  {all_results[i].tool_name :
     i \in {j \in DOMAIN all_results : all_results[j].status \in TerminalStatuses}}

\* the tasks of the current wave that the event loop has begun to run
BegunTasks == {t \in DOMAIN tasks : tasks[t].state # "scheduled"}

(***************************************************************************)
(* C10: in parallel mode the waves run in the order of the plan with a     *)
(* barrier between them: the tools that are called belong to the current   *)
(* wave, and once a tool of a wave has been started every tool of every    *)
(* earlier wave has returned a terminal result (success, failed or         *)
(* timeout) that is in the list of results; in particular every tool of    *)
(* its dependency set has completed in an earlier wave.                    *)
(***************************************************************************)
C10_BarrierBetweenWaves ==
  tpc = "gather" =>
    /\ DOMAIN tasks = Range(CurrentGroup)
    /\ \A inv \in invocations :
         inv.wave \in 1..group_index /\ inv.tool_name \in Range(plan.parallel_groups[inv.wave])
    /\ \A t \in BegunTasks :
         /\ ToolsBefore(group_index) \subseteq terminated \cap TerminalResults
         /\ plan.dependencies[t] \subseteq ToolsBefore(group_index)

\* a tool with a dependency is running in the second wave, after a first wave of two
\* tools one of which timed out
C10_Witness ==
  /\ tpc = "gather"
  /\ group_index = 2
  /\ Len(plan.parallel_groups[1]) >= 2
  /\ \E i \in DOMAIN all_results : all_results[i].status = "timeout"
  /\ \E t \in DOMAIN tasks : tasks[t].state = "running" /\ plan.dependencies[t] # {}

(***************************************************************************)
(* C11: in every plan produced by create_execution_plan no entry of        *)
(* parallel_groups has more members than max_parallel_tools, and no entry  *)
(* is empty.                                                               *)
(***************************************************************************)
C11_WaveCap ==
  Planned =>
    \A k \in DOMAIN plan.parallel_groups :
      /\ Len(plan.parallel_groups[k]) >= 1
      /\ Len(plan.parallel_groups[k]) <= max_parallel_tools

\* the cap has acted: a wave is full and a tool that waits for nothing was left for the
\* next wave
C11_Witness ==
  /\ Planned
  /\ enable_parallel_execution
  /\ \E k \in DOMAIN plan.parallel_groups :
       /\ Len(plan.parallel_groups[k]) = max_parallel_tools
       /\ k + 1 \in DOMAIN plan.parallel_groups
       /\ \E t \in Range(plan.parallel_groups[k + 1]) : plan.dependencies[t] = {}

(***************************************************************************)
(* Retries of one tool.                                                    *)
(***************************************************************************)
DoneTasks == {t \in DOMAIN tasks : tpc \in {"gather", "sequential"} /\ tasks[t].state = "done"}

\* the outcomes of the attempts of the current call of tool t
AttemptsEnded(t, how) ==
  {o.attempt : o \in {x \in outcomes : /\ x.tool_name = t
                                        /\ x.position = Position
                                        /\ x.outcome \in how}}

Unsuccessful == {"timeout", "error"}

\* C12: with retry_attempts >= 1, the result of a tool whose first N attempts fail and
\* whose attempt N + 1 <= retry_attempts succeeds has status success and attempt count
\* N + 1; the result of a tool that succeeds on none of its retry_attempts attempts has
\* status failed or timeout; no returned result is pending, running or skipped.
C12_RetryUntilSuccess ==
  /\ \A i \in DOMAIN all_results : all_results[i].status \in TerminalStatuses
  /\ \A t \in DoneTasks :
       LET result == ResultOfTask(t)
       IN  /\ result.status \in TerminalStatuses
           /\ AttemptsEnded(t, {"success"}) # {} =>
                /\ result.status = "success"
                /\ AttemptsEnded(t, {"success"}) = {result.attempts}
                /\ AttemptsEnded(t, Unsuccessful) = 1..(result.attempts - 1)
                /\ result.attempts <= retry_attempts
           /\ AttemptsEnded(t, {"success"}) = {} =>
                /\ result.status \in {"failed", "timeout"}
                /\ AttemptsEnded(t, Unsuccessful) = 1..retry_attempts

\* a tool has failed once and then succeeded, and another has used up its attempts
C12_Witness ==
  /\ retry_attempts = 2
  /\ \E t \in DoneTasks :
       /\ AttemptsEnded(t, Unsuccessful) = {1}
       /\ ResultOfTask(t).status = "success"
       /\ ResultOfTask(t).attempts = 2
  /\ \E t \in DoneTasks :
       /\ AttemptsEnded(t, Unsuccessful) = {1, 2}
       /\ ResultOfTask(t).status \in {"failed", "timeout"}

\* the attempts of the current call of tool t in which the tool was called
CallsMade(t) ==
  {i.attempt : i \in {x \in invocations : x.tool_name = t /\ x.wave = WaveNow}}

\* C13: a tool that exceeds the deadline on every attempt is called exactly
\* retry_attempts times and its result has status timeout; when the attempts end for
\* different reasons, the status is the one of the condition that ended the last
\* attempt: timeout after a timeout, failed after an exception.
C13_TimeoutOnEveryAttempt ==
  \A t \in DoneTasks :
    LET result == ResultOfTask(t)
    IN  /\ AttemptsEnded(t, {"timeout"}) = 1..retry_attempts =>
             /\ CallsMade(t) = 1..retry_attempts
             /\ result.status = "timeout"
        /\ retry_attempts \in AttemptsEnded(t, {"timeout"}) => result.status = "timeout"
        /\ retry_attempts \in AttemptsEnded(t, {"error"}) => result.status = "failed"

\* one tool has timed out on both attempts, another has raised and then timed out
C13_Witness ==
  /\ retry_attempts = 2
  /\ \E t \in DoneTasks :
       /\ AttemptsEnded(t, {"timeout"}) = {1, 2}
       /\ CallsMade(t) = {1, 2}
  /\ \E t \in DoneTasks :
       /\ AttemptsEnded(t, {"error"}) = {1}
       /\ AttemptsEnded(t, {"timeout"}) = {2}

\* C14: before attempt k + 1 of a tool (1 <= k < retry_attempts) the orchestrator has
\* waited a backoff of k units, whether attempt k ended by a timeout or by an
\* exception; no attempt follows a successful one.
C14_BackoffBeforeEveryRetry ==
  /\ \A i \in invocations : i.attempt >= 2 => i.backoff = i.attempt - 1
  /\ \A o \in outcomes :
       o.outcome = "success" =>
         \A i \in invocations :
           (i.tool_name = o.tool_name /\ i.wave = WaveNow /\ o.position = Position)
             => i.attempt <= o.attempt

(***************************************************************************)
(* Stopping after a failure.                                               *)
(***************************************************************************)
FailFastPriorities == {"CRITICAL", "HIGH"}

\* the statuses of the results returned so far
StatusesSoFar == {all_results[i].status : i \in DOMAIN all_results}

\* the orchestration raised internally and returned its synthetic result
RaisedInternally == tpc = "returned" /\ all_results = <<FailureResult>>

\* every tool of the plan has a result
EveryToolRan ==
  Len(all_results) = IF ParallelMode
                     THEN Cardinality(Range(plan.execution_order))
                     ELSE Len(plan.execution_order)

\* C15: in a plan of priority CRITICAL or HIGH, once a tool has ended failed or timeout
\* no remaining tool is started, in sequential and in parallel mode; in a plan of
\* another priority the remaining tools run.
C15_FailFastBothModes ==
  Planned =>
    /\ (plan.priority \in FailFastPriorities /\ StatusesSoFar \cap {"failed", "timeout"} # {})
         => \A t \in DOMAIN tasks : tasks[t].state = "scheduled"
    /\ (plan.priority \notin FailFastPriorities /\ tpc = "returned" /\ ~RaisedInternally)
         => EveryToolRan

\* the first result with status failed, 0 when there is none
FirstFailed ==
  IF \E i \in DOMAIN all_results : all_results[i].status = "failed"
  THEN CHOOSE i \in DOMAIN all_results :
         /\ all_results[i].status = "failed"
         /\ \A j \in 1..(i - 1) : all_results[j].status # "failed"
  ELSE 0

\* the tools of execution_order up to position n
OrderPrefix(n) == {plan.execution_order[j] : j \in 1..n}

\* C16: with parallel execution disabled the tools are attempted one at a time in
\* execution_order; after a result with status failed in a plan of priority CRITICAL or
\* HIGH no later tool is called; otherwise every tool of the order is attempted.
C16_SequentialOrder ==
  (Planned /\ ~ParallelMode /\ ~RaisedInternally) =>
    /\ Len(all_results) <= Len(plan.execution_order)
    /\ \A i \in DOMAIN all_results : all_results[i].tool_name = plan.execution_order[i]
    /\ tpc = "sequential" =>
         /\ DOMAIN tasks = {CurrentTool}
         /\ Len(all_results) = tool_index - 1
         /\ {i.tool_name : i \in invocations} \subseteq OrderPrefix(tool_index)
    /\ tpc = "returned" =>
         /\ {i.tool_name : i \in invocations} \subseteq OrderPrefix(Len(all_results))
         /\ IF plan.priority \in FailFastPriorities /\ FirstFailed # 0
            THEN Len(all_results) = FirstFailed
            ELSE Len(all_results) = Len(plan.execution_order)

\* a sequential run of two tools has stopped after the failure of the first, which was
\* called; its priority is CRITICAL
C16_Witness ==
  /\ Planned /\ ~ParallelMode
  /\ tpc = "returned"
  /\ plan.priority = "CRITICAL"
  /\ Len(plan.execution_order) = 2
  /\ Len(all_results) = 1
  /\ all_results[1].status = "failed"
  /\ invocations # {}

(***************************************************************************)
(* What execute_tool_sequence returns.                                     *)
(***************************************************************************)
\* a task whose tool was missing from the registry when it was attempted
MissingFromRegistry(t) == t \in DoneTasks /\ ~tasks[t].called

ReturnedWithoutPlan == tool_execution_results.returned /\ ValidTools = <<>>

\* C18: when no plan can be built because none of the selected tools is valid, the
\* Brain node receives a list that holds exactly one synthetic failed result, not an
\* exception and not an empty list.
C18_SyntheticResultForInvalidSelection ==
  ReturnedWithoutPlan =>
    /\ Len(tool_execution_results.results) = 1
    /\ tool_execution_results.results[1].status = "failed"

(***************************************************************************)
(* The tools of a plan.                                                    *)
(***************************************************************************)
\* the positions of selected_tools that name a tool of the capability catalog
CatalogPositions == {i \in DOMAIN selected_tools : selected_tools[i] \in DOMAIN tool_capabilities}

SelectedCatalogTools == {selected_tools[i] : i \in CatalogPositions}

\* the sequence s is the sequence t without some of its elements
RECURSIVE IsSubSeq(_, _)
IsSubSeq(s, t) ==
  IF s = <<>> THEN TRUE
  ELSE IF t = <<>> THEN FALSE
  ELSE IF Head(s) = Head(t) THEN IsSubSeq(Tail(s), Tail(t))
  ELSE IsSubSeq(s, Tail(t))

\* C19: create_execution_plan keeps exactly the selected tools that are in the
\* capability catalog and fails, producing no plan, if and only if none remains; every
\* tool named in the tools, execution_order, dependencies and parallel_groups of a plan
\* is a selected tool of the catalog.
C19_PlanToolsAreSelectedCatalogTools ==
  /\ tpc = "plan_error" => (CatalogPositions = {} /\ plan = NoPlan)
  /\ Planned =>
       /\ CatalogPositions # {}
       /\ Len(plan.tools) = Cardinality(CatalogPositions)
       /\ Range(plan.tools) = SelectedCatalogTools
       /\ IsSubSeq(plan.tools, selected_tools)
       /\ Range(plan.execution_order) \subseteq SelectedCatalogTools
       /\ DOMAIN plan.dependencies \subseteq SelectedCatalogTools
       /\ \A t \in DOMAIN plan.dependencies : plan.dependencies[t] \subseteq SelectedCatalogTools
       /\ \A k \in DOMAIN plan.parallel_groups :
            Range(plan.parallel_groups[k]) \subseteq SelectedCatalogTools

\* a plan was built from a selection of which one tool was dropped and two were kept,
\* one depending on the other
C19_Witness ==
  /\ Planned
  /\ Cardinality(CatalogPositions) < Len(selected_tools)
  /\ Len(plan.tools) >= 2
  /\ \E t \in DOMAIN plan.dependencies : plan.dependencies[t] # {}

(***************************************************************************)
(* The accumulated context of the tools.                                   *)
(***************************************************************************)
\* the tools of the waves before wave k whose result has status success
SucceededBefore(k) ==
  {all_results[i].tool_name :
     i \in {j \in DOMAIN all_results : /\ all_results[j].tool_name \in ToolsBefore(k)
                                       /\ all_results[j].status = "success"}}

\* while wave k runs, the context holds the results of the successful tools of the
\* earlier waves and no other
ContextOfEarlierWaves ==
  tpc = "gather" =>
    /\ {all_results[i].tool_name : i \in DOMAIN all_results} = ToolsBefore(group_index)
    /\ accumulated_context = SucceededBefore(group_index)

\* a step that changes the context is the join of a wave whose tasks have all returned
WrittenAtJoinOnly ==
  (tpc = "gather" /\ accumulated_context' # accumulated_context) =>
    /\ \A t \in DOMAIN tasks : tasks[t].state = "done"
    /\ accumulated_context' = accumulated_context \cup SucceededBefore(group_index + 1)'

\* C20: the accumulated tool context is written by the orchestrator after the join of a
\* wave only: no step taken while tools of wave k are running changes it, and while
\* wave k runs it holds the key of exactly the tools of the waves before k that ended
\* with status success, nothing being merged for failed or timed-out tools.
C20_ContextWrittenAfterJoin == []ContextOfEarlierWaves /\ [][WrittenAtJoinOnly]_vars

\* the second wave runs after a first wave of which one tool succeeded and one did not
C20_Witness ==
  /\ tpc = "gather"
  /\ group_index = 2
  /\ \E t \in DOMAIN tasks : tasks[t].state = "running"
  /\ accumulated_context # {}
  /\ \E i \in DOMAIN all_results : all_results[i].status \in {"failed", "timeout"}

(***************************************************************************)
(* A timeout and the other calls of its wave.                              *)
(***************************************************************************)
\* the step records a timeout of an attempt of tool t
TimeoutOf(t) ==
  \E o \in outcomes' \ outcomes : o.tool_name = t /\ o.outcome = "timeout"

\* the step that times tool t out leaves every other task of the wave as it was, and
\* records the timeout on t when the attempt was the last
SiblingsUntouched ==
  \A t \in DOMAIN tasks :
    (tpc = "gather" /\ TimeoutOf(t)) =>
      /\ DOMAIN tasks' = DOMAIN tasks
      /\ \A s \in DOMAIN tasks \ {t} : tasks'[s] = tasks[s]
      /\ tasks[t].attempt = retry_attempts =>
           (tasks'[t].state = "done" /\ tasks'[t].status = "timeout")

\* the status of a finished task of the wave is the one its own attempts decide
OwnTerminalResult ==
  tpc = "gather" =>
    \A s \in DoneTasks :
      /\ AttemptsEnded(s, {"success"}) # {} => tasks[s].status = "success"
      /\ retry_attempts \in AttemptsEnded(s, {"error"}) => tasks[s].status = "failed"
      /\ retry_attempts \in AttemptsEnded(s, {"timeout"}) => tasks[s].status = "timeout"

\* a sibling of a timed out call can still end in each of the three ways
SiblingsKeepRunning ==
  tpc = "gather" =>
    \A s \in DOMAIN tasks :
      (tasks[s].state = "running" /\ tasks[s].called) =>
        /\ ENABLED AttemptSucceeds(s)
        /\ ENABLED AttemptTimesOut(s)
        /\ ENABLED AttemptRaises(s)

\* C21: when a tool call of a wave exceeds its deadline only that call is aborted and
\* recorded as timeout; every other call of the wave keeps running and reaches the
\* terminal result its own attempts decide, as without the timeout.
C21_TimeoutIsolatedFromSiblings ==
  /\ [](OwnTerminalResult /\ SiblingsKeepRunning)
  /\ [][SiblingsUntouched]_vars

\* one call of a wave has ended with status timeout while another call of the wave is
\* still running
C21_Witness ==
  /\ tpc = "gather"
  /\ \E t \in DoneTasks : tasks[t].status = "timeout"
  /\ \E s \in DOMAIN tasks : tasks[s].state = "running" /\ tasks[s].called

(***************************************************************************)
(* What is running at one moment of a workflow run.                        *)
(***************************************************************************)
\* the nodes whose executor was called and has neither returned nor raised
ExecutingNodes ==
  {started[j].node_id : j \in DOMAIN started}
    \ (Range(ResultIds(node_results))
         \cup {events[j].node_id :
                 j \in {i \in DOMAIN events : events[i].type = "execution_error"}})

\* the tools whose callable has been called and has not yet returned, raised or timed out
CallsInFlight ==
  {t \in DOMAIN tasks : tasks[t].state = "running" /\ tasks[t].called}

\* C22: at every moment of a workflow run at most one node is executing, and the tool
\* calls in flight all belong to one wave of the plan of that node and number at most
\* max_parallel_tools.
C22_OneNodeOneWave ==
  /\ Cardinality(ExecutingNodes) <= 1
  /\ CallsInFlight # {} =>
       /\ ExecutingNodes = {tools_node}
       /\ \E k \in DOMAIN plan.parallel_groups :
            CallsInFlight \subseteq Range(plan.parallel_groups[k])
       /\ Cardinality(CallsInFlight) <= max_parallel_tools

\* the second brain node of the run has as many calls in flight as the cap allows, and
\* a tool of its plan is left for a later wave
C22_Witness ==
  /\ Len(started) = 2
  /\ ExecutingNodes = {started[2].node_id}
  /\ Cardinality(CallsInFlight) = max_parallel_tools
  /\ Len(plan.parallel_groups) = 2

(***************************************************************************)
(* The plan of a search followed by an email.                              *)
(***************************************************************************)
\* the valid selected tools are web_search and email, and the flag is set
SearchBeforeEmail ==
  /\ Planned
  /\ SelectedCatalogTools = {"web_search", "email"}
  /\ context.search_before_email = "true"

\* C23: planning the tools web_search and email with the context flag
\* search_before_email true yields the dependency email -> web_search, the
\* execution_order <<web_search, email>> and the parallel_groups <<<<web_search>>,
\* <<email>>>>; in every plan a dependency of a tool is a selected tool other than the
\* tool itself.
C23_SearchBeforeEmailPlan ==
  /\ SearchBeforeEmail =>
       /\ plan.dependencies["email"] = {"web_search"}
       /\ plan.dependencies["web_search"] = {}
       /\ plan.execution_order = <<"web_search", "email">>
       /\ plan.parallel_groups = <<<<"web_search">>, <<"email">>>>
  /\ Planned =>
       \A t \in DOMAIN plan.dependencies :
         plan.dependencies[t] \subseteq Range(plan.tools) \ {t}

\* the plan of the selection <<email, web_search>> with the flag set, in parallel mode
C23_Witness ==
  /\ SearchBeforeEmail
  /\ selected_tools = <<"email", "web_search">>
  /\ enable_parallel_execution

(***************************************************************************)
(* The events and the persisted status of an aborted run.                  *)
(***************************************************************************)
ErrorEvents == {i \in DOMAIN events : events[i].type = "execution_error"}

\* the last event names the node the loop stopped at and carries the error that is
\* persisted with the status failed
LastEventIsTheAbort ==
  /\ events # <<>>
  /\ events[Len(events)].type = "execution_error"
  /\ idx \in DOMAIN execution_order
  /\ events[Len(events)].node_id = execution_order[idx]
  /\ events[Len(events)].error \in ErrorKinds
  /\ persist_log # <<>>
  /\ persist_log[Len(persist_log)].status = "failed"
  /\ persist_log[Len(persist_log)].error = events[Len(events)].error

FailedSendsOf(type) == {i \in send_failures : events[i].type = type}

\* no failed delivery is taken for an error of the run or of a node
NoSendErrorHandled ==
  /\ pc # "raised"
  /\ \A i \in DOMAIN events : events[i].error # SendError
  /\ \A i \in DOMAIN persist_log : persist_log[i].error # SendError

\* a node whose node_executed event was not delivered keeps its result, has no error
\* event, and the loop has gone on past it
NodeOfFailedSendNotFailed ==
  \A i \in FailedSendsOf("node_executed") :
    /\ HasResult(events[i].node_id)
    /\ ErrorEventsOf(events[i].node_id) = {}
    /\ idx > Pos(events[i].node_id)

\* the step in which a delivery fails goes where the same step goes when the delivery
\* succeeds
FailedSendGoesOn ==
  send_failures' # send_failures =>
    LET e == events'[Len(events')]
    IN  /\ events' = Append(events, e)
        /\ e.type = "workflow_started" => pc' = "loop" /\ idx' = 1
        /\ e.type = "node_executed" => pc' = "loop" /\ idx' = idx + 1
        /\ e.type = "execution_error" =>
             IF _is_critical_error(e.error, TypeOf(e.node_id))
             THEN pc' = "done" /\ LastStatus' = "failed"
             ELSE pc' = "loop" /\ idx' = idx + 1
        /\ e.type = "workflow_finished" => pc' = "done" /\ LastStatus' = "completed"

\* C25: when the delivery of a lifecycle event fails (a send_text of the broadcast raises
\* on workflow_started, node_executed, execution_error or workflow_finished), the run is
\* not aborted: the node whose event failed is not treated as failed, the remaining nodes
\* still have their turn, and execute() does not raise.
C25_FailedDeliveryDoesNotAbort ==
  /\ [](NoSendErrorHandled /\ NodeOfFailedSendNotFailed)
  /\ [][FailedSendGoesOn]_vars

\* a completed run in which the delivery of a workflow_started, of a node_executed and of
\* a workflow_finished event failed, and a node ran after the failed node_executed
C25_Witness ==
  /\ Completed
  /\ FailedSendsOf("workflow_started") # {}
  /\ FailedSendsOf("workflow_finished") # {}
  /\ \E i \in FailedSendsOf("node_executed") :
       \E j \in DOMAIN started : Pos(started[j].node_id) > Pos(events[i].node_id)

\* ---- C26 ----

\* the calls of _persist_status that left the record of the run as it was
CallsNotStored == {i \in DOMAIN persist_log : ~persist_log[i].stored}

\* no call of _persist_status has raised: execute() has not been left by an error and
\* no handler has seen an error of the session
PersistReturnsNormally ==
  /\ pc # "raised"
  /\ \A i \in DOMAIN events : events[i].error # PersistError
  /\ \A i \in DOMAIN persist_log : persist_log[i].error # PersistError
  /\ Len(persist_log) <= 1
  /\ \A i \in DOMAIN persist_log : persist_log[i].stored <=> db = "ok"

\* the step that calls _persist_status emits the one event of the abort or of the end
\* of the run, starts no node and ends the run, whatever the call meets
PersistCallLeavesRunAlone ==
  persist_log' # persist_log =>
    LET e == events'[Len(events')]
        call == persist_log'[Len(persist_log')]
    IN  /\ events' = Append(events, e)
        /\ persist_log' = Append(persist_log, call)
        /\ started' = started
        /\ node_results' = node_results
        /\ pc' = "done"
        /\ \/ /\ call.status = "completed"
              /\ e.type = "workflow_finished"
              /\ idx > Len(execution_order)
           \/ /\ call.status = "failed"
              /\ e.type = "execution_error"
              /\ e.node_id = CurrentId
              /\ e.error = call.error
              /\ _is_critical_error(e.error, CurrentNode.node_type)

\* C26: a failure of the persistence sink (no session or execution id, a malformed id, a
\* missing run record, an error raised by the lookup or the commit) never propagates:
\* _persist_status returns normally, and the events emitted and the nodes executed are
\* those of a run whose persistence succeeds.
C26_PersistenceFailureContained ==
  /\ []PersistReturnsNormally
  /\ [][PersistCallLeavesRunAlone]_vars

\* a run of two executed nodes that ended with workflow_finished although the commit or
\* the lookup of its only _persist_status call raised
C26_Witness ==
  /\ pc = "done"
  /\ db \in {"lookup_error", "commit_error"}
  /\ CallsNotStored = {1}
  /\ persist_log[1].status = "completed"
  /\ Len(started) >= 2
  /\ events[Len(events)].type = "workflow_finished"

\* ---- C27 ----

\* the ids of the nodes whose executor returned, in the order they returned
ExecutedIds == ResultIds(node_results)

\* C27: after each node that executes successfully the execution path has one more
\* entry, that node's id, so that the path is at every moment the sequence of the ids of
\* the executed nodes in execution order, and so at the end of a completed run.
C27_PathIsExecutedNodes == execution_path = ExecutedIds

\* ---- C28 ----

\* a chain of at most k dependencies leads from tool a to tool b
RECURSIVE ToolReaches(_, _, _, _)
ToolReaches(dependencies, a, b, k) ==
  /\ k > 0
  /\ \E d \in dependencies[a] : d = b \/ ToolReaches(dependencies, d, b, k - 1)

\* the tools that wait for themselves
ToolsOnCycle(dependencies) ==
  {t \in DOMAIN dependencies :
     ToolReaches(dependencies, t, t, Cardinality(DOMAIN dependencies))}

\* the waves of the returned plan that hold the tool
WavesHolding(t) == {k \in DOMAIN plan.parallel_groups : t \in Range(plan.parallel_groups[k])}

\* C28: when the dependency map of the selected tools contains a cycle, every valid
\* selected tool, the tools on the cycle included, is in exactly one wave of
\* parallel_groups of the returned plan.
C28_CycleToolsAreForcedIntoWaves ==
  (tpc = "planned" /\ ToolsOnCycle(plan.dependencies) # {}) =>
    \A t \in Range(plan.tools) : Cardinality(WavesHolding(t)) = 1

\* ---- C29 ----

\* an iteration of the wave loop takes at least one tool out of the remaining set
WaveLoopRemoves ==
  (planning.stage = "groups" /\ planning'.stage = "groups" /\ planning' # planning) =>
    /\ planning'.remaining \subseteq planning.remaining
    /\ planning'.remaining # planning.remaining

\* an iteration of the execution-order loop takes one entry out of a queue that a tool
\* enters at most once
OrderLoopBounded ==
  /\ Len(planning.order) <= Cardinality(Range(ValidTools))
  /\ Len(planning.st.queue) + Len(planning.order) <= Cardinality(Range(ValidTools))

\* the plan built one iteration at a time is a plan of create_execution_plan
StepwisePlanIsThePlan ==
  tpc = "planned" =>
    LET dependencies == _build_tool_dependencies(ValidTools, context)
        order        == ToolOrchestrator_calculate_execution_order(ValidTools, dependencies)
    IN  /\ plan.dependencies = dependencies
        /\ plan.execution_order = order
        /\ plan.parallel_groups \in _identify_parallel_groups(order, dependencies)

\* a wave into which a tool was forced: it holds one tool, a dependency of which is in
\* no earlier wave
ForcedWaves ==
  {k \in DOMAIN plan.parallel_groups :
     /\ Len(plan.parallel_groups[k]) = 1
     /\ \E d \in plan.dependencies[plan.parallel_groups[k][1]] :
          \A j \in 1..(k - 1) : d \notin Range(plan.parallel_groups[j])}

\* C29: plan construction terminates for every list of selected tools and every
\* dependency map, cyclic or not: the execution-order loop and the wave loop each finish,
\* every iteration of the wave loop taking at least one tool out of the remaining set.
C29_PlanConstructionTerminates ==
  /\ <>(tpc \in {"planned", "plan_error"})
  /\ [](OrderLoopBounded /\ StepwisePlanIsThePlan)
  /\ [][WaveLoopRemoves]_vars

\* a plan returned for a dependency map with a cycle, one wave of which was forced
C29_Witness ==
  /\ tpc = "planned"
  /\ ToolsOnCycle(plan.dependencies) # {}
  /\ ForcedWaves # {}

\* ---- C30 ----

\* the positions of the tool in the execution order of the returned plan
PlacesInOrder(t) == {i \in DOMAIN plan.execution_order : plan.execution_order[i] = t}

\* the tools of the waves, one after the other
RECURSIVE Concatenation(_)
Concatenation(groups) ==
  IF groups = <<>> THEN <<>> ELSE Head(groups) \o Concatenation(Tail(groups))

\* C30: for an acyclic dependency map the execution order of the plan holds every
\* distinct valid selected tool exactly once, each after all of its dependencies, and
\* the concatenation of parallel_groups holds exactly the same tools, each once.
C30_OrderAndWavesCoverTheTools ==
  (tpc = "planned" /\ ToolsOnCycle(plan.dependencies) = {}) =>
    LET waves == Concatenation(plan.parallel_groups)
    IN  /\ \A t \in Range(plan.tools) :
             /\ Cardinality(PlacesInOrder(t)) = 1
             /\ \A d \in plan.dependencies[t] :
                  IndexOf(plan.execution_order, d) < IndexOf(plan.execution_order, t)
             /\ Cardinality({i \in DOMAIN waves : waves[i] = t}) = 1
        /\ Range(plan.execution_order) = Range(plan.tools)
        /\ Range(waves) = Range(plan.tools)

\* ---- C31 ----

\* n / d rounded to the nearest integer, a half going up
RoundHalfUp(n, d) == (2 * n + d) \div (2 * d)

\* n / d rounded to the nearest integer, a half going to the even neighbour
RoundHalfEven(n, d) ==
  LET q == n \div d
      r == n % d
  IN  IF 2 * r < d THEN q
      ELSE IF 2 * r > d THEN q + 1
      ELSE IF q % 2 = 0 THEN q ELSE q + 1

\* the score of a ready tool (remaining in-degree 0) with each term rounded to the
\* nearest integer by the operator Round
RoundedScore(Round(_, _), t) ==
  IF t \in DOMAIN tool_capabilities
  THEN LET capability == tool_capabilities[t]
       IN  Round((100 - capability.reliability_score) * 10, 100)
             + Round(capability.cost_score * 10, 100)
             + Round(capability.execution_time_estimate, 50)
  ELSE 0

\* the tool at position j of the execution order was ready when the tool at position
\* i < j was taken: its dependencies are all before position i
ReadyWhenTaken(i, j) ==
  /\ i < j
  /\ plan.dependencies[plan.execution_order[j]]
       \subseteq {plan.execution_order[k] : k \in 1..(i - 1)}
  /\ plan.dependencies[plan.execution_order[i]]
       \subseteq {plan.execution_order[k] : k \in 1..(i - 1)}

\* C31: whenever several tools are ready at once during the computation of
\* execution_order, the one taken next has the lowest score, the score being
\* round((1 - reliability) x 10) + round(cost x 10) + round(time_estimate / 5)
\* + 2 x (remaining in-degree), each term rounded to the nearest integer (whichever way
\* a half is rounded).
C31_LowestRoundedScoreFirst ==
  tpc = "planned" =>
    \A i, j \in DOMAIN plan.execution_order :
      ReadyWhenTaken(i, j) =>
        \/ RoundedScore(RoundHalfUp, plan.execution_order[i])
             <= RoundedScore(RoundHalfUp, plan.execution_order[j])
        \/ RoundedScore(RoundHalfEven, plan.execution_order[i])
             <= RoundedScore(RoundHalfEven, plan.execution_order[j])

\* ---- C32 ----

\* the events of a node: its outcome events
NodeEvents == {i \in DOMAIN events : events[i].type \in {"node_executed", "execution_error"}}

\* one call of _persist_status is made, when the run ends, with completed or failed
OneTerminalWrite ==
  /\ pc # "done" => persist_log = <<>>
  /\ pc = "done" =>
       /\ Len(persist_log) = 1
       /\ persist_log[1].status \in {"completed", "failed"}

\* workflow_started is the first event and is emitted once
StartedFirst ==
  \A i \in DOMAIN events : events[i].type = "workflow_started" <=> i = 1

\* workflow_finished is the last event of a run that ended completed, after the outcome
\* event of every node that was executed
FinishedLast ==
  \A i \in DOMAIN events :
    events[i].type = "workflow_finished" =>
      /\ i = Len(events)
      /\ Completed
      /\ \A j \in DOMAIN started : \E k \in NodeEvents :
           k < i /\ events[k].node_id = started[j].node_id

\* the run stays in the terminal state it has reached
TerminalStateKept == pc = "done" => UNCHANGED <<pc, events, persist_log, started>>

\* C32: every run reaches exactly one terminal state: exactly one terminal persistence
\* write is attempted per run, with status completed or failed and never both,
\* workflow_started precedes every node event, and workflow_finished is emitted only in
\* a run that ends completed and only after the outcome events of all executed nodes.
C32_OneTerminalState ==
  /\ <>(pc = "done")
  /\ [](OneTerminalWrite /\ StartedFirst /\ FinishedLast)
  /\ [][TerminalStateKept]_vars

\* a completed run of at least two executed nodes whose last event is workflow_finished
C32_Witness ==
  /\ Completed
  /\ Len(started) >= 2
  /\ Cardinality(NodeEvents) >= 2
  /\ events[Len(events)].type = "workflow_finished"
  /\ Len(persist_log) = 1

(***************************************************************************)
(* C33.  The inputs handed to a node v when it is started are exactly the  *)
(* stored results of the nodes u that have an edge u -> v and a stored     *)
(* result at that moment, each once even when the edge is given twice; the *)
(* result of a node without an edge to v is not among them.                *)
(***************************************************************************)
\* the node being executed and what it was handed
NodeRunning == started[Len(started)]

\* the sources of the edges of the workflow into v
EdgeSources(v) ==
  {workflow.connections[i].from : i \in {j \in DOMAIN workflow.connections :
                                          workflow.connections[j].to = v}}

\* the predecessors of v whose result is stored
StoredPredecessors(v) == EdgeSources(v) \cap Range(ResultIds(node_results))

C33_InputsAreStoredPredecessorResults ==
  pc = "running" =>
    LET v   == NodeRunning.node_id
        ins == NodeRunning.inputs
    IN  /\ Len(ins) = Cardinality(StoredPredecessors(v))
        /\ \A u \in StoredPredecessors(v) :
             \E k \in DOMAIN ins : ins[k] = ResultOf(node_results, u)
        /\ \A k \in DOMAIN ins : ins[k].node_id \in StoredPredecessors(v)

\* v is running behind an edge given twice, handed the one result of its predecessor
\* while the result of a node without an edge to v is stored too
C33_Witness ==
  /\ pc = "running"
  /\ \E i, j \in DOMAIN workflow.connections :
       /\ i < j
       /\ workflow.connections[i] = workflow.connections[j]
       /\ workflow.connections[i].to = NodeRunning.node_id
  /\ Len(NodeRunning.inputs) = 1
  /\ Len(node_results) = 2

(***************************************************************************)
(* C34.  In production mode a node whose configuration has validation      *)
(* errors is never executed and produces no result and no event: its turn  *)
(* of the loop only moves on to the next node, so the nodes after it,      *)
(* its successors included, still run and the run can end completed.  In   *)
(* the other modes its turn is the turn of any other node of its type.     *)
(***************************************************************************)
\* the declared nodes whose configuration has validation errors
InvalidNodes ==
  {processed_nodes[i].node_id : i \in {j \in DOMAIN processed_nodes :
                                        processed_nodes[j].validation_errors}}

\* nothing of the run carries the node
LeavesNoTrace(n) ==
  /\ \A j \in DOMAIN started : started[j].node_id # n
  /\ n \notin Range(ResultIds(node_results))
  /\ \A i \in DOMAIN events : events[i].node_id # n

InvalidNodesLeaveNoTrace ==
  processing_mode = "production" => \A n \in InvalidNodes : LeavesNoTrace(n)

\* the turn of an invalid node
TurnOfInvalidNode ==
  (pc = "loop" /\ AtNode /\ CurrentId \in InvalidNodes) =>
    IF processing_mode = "production"
    THEN /\ idx' = idx + 1
         /\ UNCHANGED <<pc, started, node_results, events, persist_log, execution_path>>
    ELSE IF CurrentNode.node_type \in NODE_CLASSES
         THEN /\ pc' = "running"
              /\ Len(started') = Len(started) + 1
              /\ started'[Len(started')].node_id = CurrentId
         ELSE /\ Len(events') = Len(events) + 1
              /\ events'[Len(events')].type = "execution_error"
              /\ events'[Len(events')].node_id = CurrentId

C34_InvalidNodeSkippedInProduction ==
  []InvalidNodesLeaveNoTrace /\ [][TurnOfInvalidNode]_vars

\* a completed production run that passed over an invalid node and executed its
\* successor
C34_Witness ==
  /\ processing_mode = "production"
  /\ Completed
  /\ \E n \in InvalidNodes :
       /\ n \in Range(execution_order)
       /\ \E i \in DOMAIN workflow.connections, j \in DOMAIN started :
            /\ workflow.connections[i].from = n
            /\ workflow.connections[i].to = started[j].node_id

(***************************************************************************)
(* C35.  Over any graph, with or without cycles and with or without edges  *)
(* given twice, the execution order holds each node id at most once and no *)
(* node is started more than once.                                         *)
(***************************************************************************)
NoRepeat(seq) == \A i, j \in DOMAIN seq : seq[i] = seq[j] => i = j

C35_NoNodeStartedTwice ==
  /\ NoRepeat(execution_order)
  /\ NoRepeat([j \in DOMAIN started |-> started[j].node_id])

\* a finished run over a graph that gives an edge twice, whose target was started
C35_Witness ==
  /\ pc = "done"
  /\ \E i, j \in DOMAIN workflow.connections :
       /\ i < j
       /\ workflow.connections[i] = workflow.connections[j]
       /\ workflow.connections[i].from # workflow.connections[i].to
       /\ \E k \in DOMAIN started : started[k].node_id = workflow.connections[i].to
  /\ Len(started) = MaxNodes

(***************************************************************************)
(* C36.  When the connections form no cycle, also when a connection has an *)
(* end that is not a declared node, the execution order holds every        *)
(* declared node.                                                          *)
(***************************************************************************)
\* every id a node or a connection names
NamedIds ==
  DeclaredIds \cup {c.from : c \in Connections} \cup {c.to : c \in Connections}

\* a path of at most k connections, through declared and undeclared ids alike
RECURSIVE ConnectionPath(_, _, _)
ConnectionPath(a, b, k) ==
  IF k = 0 THEN FALSE
  ELSE \/ \E c \in Connections : c.from = a /\ c.to = b
       \/ \E c \in Connections : c.from = a /\ ConnectionPath(c.to, b, k - 1)

ConnectionsFormCycle == \E n \in NamedIds : ConnectionPath(n, n, Cardinality(NamedIds))

C36_AcyclicOrderHoldsEveryNode ==
  (pc # "init" /\ ~ConnectionsFormCycle) => DeclaredIds \subseteq Range(execution_order)

(***************************************************************************)
(* C37.  Within one call of execute_tool_sequence the callable of a tool   *)
(* is invoked at most retry_attempts times, and it is not invoked again    *)
(* once an invocation of it has succeeded.                                 *)
(***************************************************************************)
\* the invocations of the callable of tool t
CallsOf(t) == {i \in invocations : i.tool_name = t}

\* the tools one of whose invocations has succeeded
Succeeded == {o.tool_name : o \in {x \in outcomes : x.outcome = "success"}}

CallsWithinRetries ==
  \A t \in StandardTools :
    /\ Cardinality(CallsOf(t)) <= retry_attempts
    /\ \A o \in outcomes :
         (o.tool_name = t /\ o.outcome = "success") =>
           \A i \in CallsOf(t) : i.attempt <= o.attempt

NoCallAfterSuccess ==
  \A t \in Succeeded : {i \in invocations' : i.tool_name = t} = CallsOf(t)

C37_InvocationsBounded == []CallsWithinRetries /\ [][NoCallAfterSuccess]_vars

\* the call has returned; one tool was invoked retry_attempts times and succeeded on
\* the last, another was invoked once and succeeded
C37_Witness ==
  /\ tpc = "returned"
  /\ retry_attempts = MaxRetries
  /\ \E t \in Succeeded : Cardinality(CallsOf(t)) = retry_attempts
  /\ \E t \in Succeeded : Cardinality(CallsOf(t)) = 1

(***************************************************************************)
(* C38.  When the orchestration does not fail internally, the list that    *)
(* execute_tool_sequence returns holds, in parallel mode, one result for   *)
(* each tool of parallel_groups, wave after wave and in the order of the   *)
(* members within a wave, and, in sequential mode, one result for each     *)
(* tool of a prefix of execution_order, in that order.                     *)
(***************************************************************************)
\* the tools of the results, in the order of the list
ResultNames == [i \in DOMAIN all_results |-> all_results[i].tool_name]

\* seq is the beginning of whole
BeginningOf(seq, whole) ==
  /\ Len(seq) <= Len(whole)
  /\ seq = SubSeq(whole, 1, Len(seq))

C38_OneResultPerToolInOrder ==
  /\ (tpc = "gather" /\ ParallelMode) =>
       ResultNames = Concatenation(SubSeq(plan.parallel_groups, 1, group_index - 1))
  /\ (tpc = "returned" /\ ~RaisedInternally) =>
       IF ParallelMode
       THEN ResultNames = Concatenation(plan.parallel_groups)
       ELSE /\ BeginningOf(ResultNames, plan.execution_order)
            /\ ResultNames # <<>>

\* a parallel execution has returned the results of two waves, one of them of two tools
C38_Witness ==
  /\ tpc = "returned"
  /\ ~RaisedInternally
  /\ ParallelMode
  /\ Len(plan.parallel_groups) >= 2
  /\ \E g \in DOMAIN plan.parallel_groups : Len(plan.parallel_groups[g]) >= 2
  /\ Len(all_results) >= 3

(***************************************************************************)
(* C39.  execute_tool_sequence leaves the map of the caller and the plan   *)
(* as they were handed to it: the results of the tools are merged into a   *)
(* copy of the map that the call keeps to itself.                          *)
(***************************************************************************)
\* a step of execute_tool_sequence
ExecutionStep == tpc \in {"planned", "gather", "sequential"}

CallerKeepsMapAndPlan == ExecutionStep => UNCHANGED <<workflow_context, plan>>

\* the copy holds the keys of the map of the caller and the results merged so far
CopyHoldsTheMerges ==
  tpc \in {"gather", "sequential", "returned"} =>
    /\ workflow_context \subseteq accumulated_context
    /\ accumulated_context \ workflow_context \subseteq
         {all_results[i].tool_name : i \in {j \in DOMAIN all_results :
                                              all_results[j].status = "success"}}

C39_CallerContextUntouched == []CopyHoldsTheMerges /\ [][CallerKeepsMapAndPlan]_vars

\* the call has returned with two results merged into its copy, none into the map of
\* the caller
C39_Witness ==
  /\ tpc = "returned"
  /\ Cardinality(accumulated_context) >= 2
  /\ workflow_context = {}
  /\ Len(plan.execution_order) >= 2

(***************************************************************************)
(* C40.  The estimated duration of a plan is, with parallel execution      *)
(* enabled, the sum over its waves of the largest time estimate among the  *)
(* members of the wave and, with parallel execution disabled, the sum of   *)
(* the estimates of the tools of execution_order; the estimate of the      *)
(* parallel plan is never above the sequential estimate of the same tools. *)
(***************************************************************************)
\* the sum of the first n numbers of a sequence
RECURSIVE TotalOver(_, _)
TotalOver(numbers, n) == IF n = 0 THEN 0 ELSE numbers[n] + TotalOver(numbers, n - 1)

\* the largest estimate among the members of each wave
WaveTimes ==
  [k \in DOMAIN plan.parallel_groups |->
     MaxOf({TimeEstimate(t) : t \in Range(plan.parallel_groups[k])})]

\* what an orchestrator without parallel execution estimates for the order of the plan
SequentialEstimate ==
  TotalOver([i \in DOMAIN plan.execution_order |-> TimeEstimate(plan.execution_order[i])],
            Len(plan.execution_order))

C40_EstimatedDuration ==
  tpc = "planned" =>
    /\ plan.estimated_duration =
         IF enable_parallel_execution
         THEN TotalOver(WaveTimes, Len(plan.parallel_groups))
         ELSE SequentialEstimate
    /\ plan.estimated_duration <= SequentialEstimate

\* a parallel plan of several waves, one of which saves time
C40_Witness ==
  /\ tpc = "planned"
  /\ enable_parallel_execution
  /\ Len(plan.parallel_groups) >= 2
  /\ \E k \in DOMAIN plan.parallel_groups : Len(plan.parallel_groups[k]) >= 2
  /\ plan.estimated_duration < SequentialEstimate
====
